---- MODULE Spec2Model ----
(***************************************************************************)
(* Model of the resume scoring pipeline of ATS_CALCULATION:                *)
(*   - the checkers of app/services/checkers (formatting, readability,     *)
(*     experience, JD alignment, impact),                                  *)
(*   - PerfectAnalysisEngine.analyze (weighted score, mismatch override,   *)
(*     grade),                                                             *)
(*   - AdaptiveScorer.enhance_analysis and the rule/ML fusion of           *)
(*     MLEnhancedAnalyzer.analyze,                                         *)
(*   - the lazily initialised module-level singletons (kb_singleton,       *)
(*     knowledge_base_engine.get_kb, ml_scorer.get_ml_scorer),             *)
(*   - SmartSkillMatcher, normalize_skill_inputs, the file cache LLMCache, *)
(*   - the upload handlers of main.py on the tables of DatabaseManager.    *)
(*                                                                         *)
(* Numbers.  Python floats are modelled in fixed point:                    *)
(*   - a raw category score is an integer number of milli-points           *)
(*     (5.0 points = 5000),                                                *)
(*   - a 0..100 score (final score, display score, ML score) is an integer *)
(*     number of micro-points (100.0 = 100000000), because a weight is a   *)
(*     number of thousandths and weight x normalized score is then exact,  *)
(*   - a similarity or a rate is a number of thousandths.                  *)
(* Texts are modelled by the features the code reads from them (is it      *)
(* empty, how many terms match, which keywords a title contains).          *)
(***************************************************************************)
EXTENDS Integers, Sequences, FiniteSets, TLC

VARIABLES
    now,            \* datetime.now() as a month index (year * 12 + month - 1)
    call,           \* the arguments of the call in progress or just returned
    analysis,       \* what PerfectAnalysisEngine.analyze returned (or raised)
    enhanced,       \* what AdaptiveScorer.enhance_analysis returned (or raised)
    ml_result,      \* what MLEnhancedAnalyzer.analyze returned (or raised)
    kb_loaded,      \* kb_singleton._kb_loaded
    kb_instance,    \* kb_singleton._kb_instance (0 is None, n > 0 the n-th object built)
    engine_kb,      \* knowledge_base_engine._kb_instance
    ml_scorer,      \* ml_scorer._ml_scorer
    kb_files,       \* the KB directory: "ok", "missing" or "broken" (loading raises)
    built,          \* number of objects constructed so far, per class
    tpc,            \* per thread: the line of the getter it is about to execute
    tcall,          \* per thread: which getter it is calling
    tlocal,         \* per thread: the object it has just constructed
    returned,       \* per getter: the set of values it has returned to callers
    clock,          \* datetime.now() in hours since the cache directory was created
    cache,          \* the files of LLMCache.cache_dir
    stored,         \* history: the last set() of every (text, doc_type) and its time
    db,             \* the tables job_descriptions, resumes, match_results
    uuids           \* number of values uuid4() has returned

vars == <<now, call, analysis, enhanced, ml_result, kb_loaded, kb_instance, engine_kb,
          ml_scorer, kb_files, built, tpc, tcall, tlocal, returned,
          clock, cache, stored, db, uuids>>

engineVars == <<now, call, analysis, enhanced, ml_result>>
kbVars == <<kb_loaded, kb_instance, engine_kb, ml_scorer, kb_files, built, tpc, tcall,
           tlocal, returned>>
storeVars == <<clock, cache, stored, db, uuids>>

-----------------------------------------------------------------------------
(* Fixed point helpers                                                     *)

Milli == 10 * 100            \* milli-points per point
Micro == Milli * Milli       \* micro-points per point

Min(a, b) == IF a <= b THEN a ELSE b
Max(a, b) == IF a >= b THEN a ELSE b

\* Python round(x, 1) of a 0..100 score held in micro-points; the result is
\* again in micro-points.  Halves go to the even tenth.
Round1(x) ==
    LET tenth == Micro \div 10
        q == x \div tenth
        r == x % tenth
        up == (2 * r > tenth) \/ (2 * r = tenth /\ q % 2 = 1)
    IN  (IF up THEN q + 1 ELSE q) * tenth

\* A checker's return value: (score, feedback), or an exception that leaves it.
Ret(score, feedback) == [raised |-> FALSE, score |-> score, feedback |-> feedback]
Raise == [raised |-> TRUE, score |-> 0, feedback |-> <<>>]

RECURSIVE Concat(_)
Concat(seqs) == IF seqs = <<>> THEN <<>> ELSE Head(seqs) \o Concat(Tail(seqs))

-----------------------------------------------------------------------------
(* Phase 1: FormattingChecker                                              *)
(* A file is [ext, readable, pages, many_fonts, non_standard, size_out]:   *)
(* pages lists, per PDF page, whether find_tables() / get_images() return  *)
(* anything; for a DOCX the same list gives the document's tables and      *)
(* pictures.  readable = FALSE is a file fitz / python-docx cannot open.   *)

RECURSIVE _check_pdf_layout_pages(_)
_check_pdf_layout_pages(pages) ==
    IF pages = <<>> THEN [delta |-> 0, feedback |-> <<>>]
    ELSE LET p == Head(pages)
             rest == _check_pdf_layout_pages(Tail(pages))
             t == IF p.tables THEN <<"Tables detected - may break ATS parsers">> ELSE <<>>
             i == IF p.images THEN <<"Images/graphics detected - avoid visual elements">> ELSE <<>>
         IN  [delta |-> rest.delta - (IF p.tables THEN 5 * Milli ELSE 0)
                                   - (IF p.images THEN 5 * Milli ELSE 0),
              feedback |-> t \o i \o rest.feedback]

_check_pdf_layout(file) ==
    IF ~file.readable THEN [delta |-> 0, feedback |-> <<>>]
    ELSE _check_pdf_layout_pages(file.pages)

_check_docx_layout(file) ==
    IF ~file.readable THEN [delta |-> 0, feedback |-> <<>>]
    ELSE LET has_tables == \E i \in 1..Len(file.pages) : file.pages[i].tables
             has_images == \E i \in 1..Len(file.pages) : file.pages[i].images
         IN  [delta |-> 0 - (IF has_tables THEN 5 * Milli ELSE 0)
                          - (IF has_images THEN 5 * Milli ELSE 0),
              feedback |-> (IF has_tables THEN <<"tables found - use simple formatting">> ELSE <<>>)
                        \o (IF has_images THEN <<"Images detected - remove visual elements">> ELSE <<>>)]

check_file_layout(file) ==
    LET start == 20 * Milli
        d == CASE file.ext = "pdf"  -> _check_pdf_layout(file)
               [] file.ext = "docx" -> _check_docx_layout(file)
               [] file.ext = "txt"  -> [delta |-> 0 - 10 * Milli,
                                        feedback |-> <<"TXT format lacks formatting - use PDF or DOCX">>]
               [] OTHER -> [delta |-> 0, feedback |-> <<>>]
    IN  Ret(Max(0, start + d.delta), d.feedback)

_check_fonts(file) ==
    IF ~file.readable THEN [delta |-> 0, feedback |-> <<>>]
    ELSE [delta |-> 0 - (IF file.many_fonts THEN 3 * Milli ELSE 0)
                      - (IF file.non_standard THEN 2 * Milli ELSE 0)
                      - (IF file.size_out THEN 2 * Milli ELSE 0),
          feedback |-> (IF file.many_fonts THEN <<"Too many fonts">> ELSE <<>>)
                    \o (IF file.non_standard THEN <<"Use standard fonts">> ELSE <<>>)
                    \o (IF file.size_out THEN <<"Use 10-12pt font">> ELSE <<>>)]

check_font_consistency(file) ==
    LET start == 10 * Milli
        d == IF file.ext \in {"pdf", "docx"} THEN _check_fonts(file)
             ELSE [delta |-> 0, feedback |-> <<>>]
    IN  Ret(Max(0, start + d.delta), d.feedback)

-----------------------------------------------------------------------------
(* Phase 2: ReadabilityChecker                                             *)
(* flesch is [ok, value]: textstat's Flesch Reading Ease (an integer here) *)
(* or ok = FALSE when textstat raises.                                     *)

check_readability(flesch) ==
    IF ~flesch.ok THEN Ret(7 * Milli, <<>>)
    ELSE IF 60 <= flesch.value /\ flesch.value <= 80 THEN Ret(10 * Milli, <<>>)
    ELSE IF flesch.value < 60 THEN Ret(6 * Milli, <<"Consider simplifying complex sentences">>)
    ELSE Ret(8 * Milli, <<>>)

\* bullets is [n, action]: the number of experience bullets and how many of
\* them start with an action verb; buzzwords is the number of distinct
\* buzzwords found in the text.
check_professional_language(bullets, buzzwords) ==
    LET verbs ==
            IF bullets.n > 0 THEN
                \* action_verb_pct = action / n compared with 0.8, 0.5, 0.3
                IF 10 * bullets.action >= 8 * bullets.n THEN Ret(10 * Milli, <<>>)
                ELSE IF 10 * bullets.action >= 5 * bullets.n THEN Ret(8 * Milli, <<>>)
                ELSE IF 10 * bullets.action >= 3 * bullets.n THEN Ret(7 * Milli, <<>>)
                ELSE Ret(6 * Milli, <<"Use more action verbs">>)
            ELSE Ret(7 * Milli, <<>>)
        many == buzzwords > 3
    IN  Ret(Max(0, verbs.score - (IF many THEN Milli ELSE 0)),
            verbs.feedback \o (IF many THEN <<"Reduce buzzwords">> ELSE <<>>))

-----------------------------------------------------------------------------
(* Phase 3: ExperienceChecker                                              *)
(* A date string is [kind, ym] with kind one of                            *)
(*   "mm/yyyy"    01/2020        "mon yyyy"  Jan 2020                      *)
(*   "month yyyy" January 2020   "yyyy"      2020                          *)
(*   "present"    the sentinel   "empty"     ''                            *)
(*   "bad"        a string no pattern matches and dateutil cannot parse    *)
(* and ym the month index (year * 12 + month - 1) it names; for "yyyy" ym  *)
(* is year * 12 and dateutil takes the month from today's date.            *)

DATE_PATTERNS == <<{"mm/yyyy"}, {"mon yyyy"}, {"mon yyyy", "month yyyy"}, {"yyyy"}>>

\* re.match(DATE_PATTERNS[p], d)
DateMatches(p, d) == d.kind \in DATE_PATTERNS[p]

\* the strings check_date_consistency collects: start, end of every job, the
\* falsy ones ('' or missing) left out
RECURSIVE DateStrings(_)
DateStrings(work_history) ==
    IF work_history = <<>> THEN <<>>
    ELSE LET job == Head(work_history)
         IN  (IF job.start_date.kind # "empty" THEN <<job.start_date>> ELSE <<>>)
          \o (IF job.end_date.kind # "empty" THEN <<job.end_date>> ELSE <<>>)
          \o DateStrings(Tail(work_history))

check_date_consistency(work_history) ==
    LET date_strings == DateStrings(work_history)
        hits == {p \in 1..Len(DATE_PATTERNS) : DateMatches(p, date_strings[1])}
        first_pattern == CHOOSE p \in hits : \A q \in hits : p <= q
        inconsistent == \E i \in 2..Len(date_strings) : ~DateMatches(first_pattern, date_strings[i])
    IN  IF work_history = <<>> \/ date_strings = <<>> THEN Ret(5 * Milli, <<>>)
        ELSE IF hits # {} /\ inconsistent
             THEN Ret(Max(0, 5 * Milli - 3 * Milli),
                      <<"Inconsistent date formatting - use same format throughout">>)
        ELSE Ret(5 * Milli, <<>>)

\* _parse_date: [none |-> TRUE] is Python's None; otherwise the month index
\* and whether the value is datetime.now() (which carries a time of day and so
\* sorts after a parsed date of the same day).
_parse_date(d, today) ==
    CASE d.kind \in {"empty", "present"} -> [none |-> FALSE, ym |-> today, is_now |-> TRUE]
      [] d.kind = "bad"  -> [none |-> TRUE, ym |-> 0, is_now |-> FALSE]
      [] d.kind = "yyyy" -> [none |-> FALSE, ym |-> d.ym + (today % 12), is_now |-> FALSE]
      [] OTHER           -> [none |-> FALSE, ym |-> d.ym, is_now |-> FALSE]

\* datetime comparison a <= b on parsed values
DateLeq(a, b) == a.ym < b.ym \/ (a.ym = b.ym /\ (~a.is_now \/ b.is_now))

\* sorted(work_history, key = parsed start date): a stable sort
RECURSIVE InsertByStart(_, _, _)
InsertByStart(job, sorted, today) ==
    IF sorted = <<>> THEN <<job>>
    ELSE IF DateLeq(_parse_date(Head(sorted).start_date, today),
                    _parse_date(job.start_date, today))
         THEN <<Head(sorted)>> \o InsertByStart(job, Tail(sorted), today)
         ELSE <<job>> \o sorted

RECURSIVE SortByStart(_, _)
SortByStart(work_history, today) ==
    IF work_history = <<>> THEN <<>>
    ELSE InsertByStart(work_history[Len(work_history)],
                       SortByStart(SubSeq(work_history, 1, Len(work_history) - 1), today),
                       today)

GapMonths(sorted_history, i, today) ==
    LET end_date == _parse_date(sorted_history[i].end_date, today)
        next_start == _parse_date(sorted_history[i + 1].start_date, today)
    IN  IF end_date.none \/ next_start.none THEN 0
        ELSE next_start.ym - end_date.ym

\* check_employment_gaps without the sort: gaps between the jobs as listed
check_employment_gaps_listed_order(work_history, today) ==
    IF Len(work_history) < 2 THEN Ret(10 * Milli, <<>>)
    ELSE IF \E i \in 1..Len(work_history) : _parse_date(work_history[i].start_date, today).none
         THEN Raise
    ELSE LET gaps == {i \in 1..(Len(work_history) - 1) : GapMonths(work_history, i, today) > 6}
             n == Cardinality(gaps)
         IN  IF n > 0
             THEN Ret(Max(0, 10 * Milli - Min(10 * Milli, n * 3 * Milli)),
                      <<ToString(n) \o " employment gap(s) > 6 months detected">>)
             ELSE Ret(10 * Milli, <<>>)

check_employment_gaps(work_history, today) ==
    IF Len(work_history) < 2 THEN Ret(10 * Milli, <<>>)
    \* a None key cannot be compared with a datetime: sorted() raises TypeError
    ELSE IF \E i \in 1..Len(work_history) : _parse_date(work_history[i].start_date, today).none
         THEN Raise
    ELSE LET sorted_history == SortByStart(work_history, today)
             gaps == {i \in 1..(Len(sorted_history) - 1) : GapMonths(sorted_history, i, today) > 6}
             n == Cardinality(gaps)
         IN  IF n > 0
             THEN Ret(Max(0, 10 * Milli - Min(10 * Milli, n * 3 * Milli)),
                      <<ToString(n) \o " employment gap(s) > 6 months detected">>)
             ELSE Ret(10 * Milli, <<>>)

\* total months of experience; _calculate_total_years is this / 12.0
RECURSIVE _calculate_total_months(_, _)
_calculate_total_months(work_history, today) ==
    IF work_history = <<>> THEN 0
    ELSE LET start == _parse_date(Head(work_history).start_date, today)
             end == _parse_date(Head(work_history).end_date, today)
             months == IF start.none \/ end.none THEN 0 ELSE Max(0, end.ym - start.ym)
         IN  months + _calculate_total_months(Tail(work_history), today)

\* A title is a string of the vocabulary below; TitleKeywords gives, of the
\* keywords the code looks for, those that occur in title.lower().
TitleKeywords ==
    [t \in {"", "Developer", "Senior Developer", "Junior Analyst", "Team Lead", "Clerk"} |->
        CASE t = "Developer"        -> {"developer"}
          [] t = "Senior Developer" -> {"senior", "developer"}
          [] t = "Junior Analyst"   -> {"junior", "analyst"}
          [] t = "Team Lead"        -> {"lead"}
          [] OTHER                  -> {}]

seniority_keywords == {"junior", "senior", "lead", "principal", "manager", "director"}

\* number of companies whose list of titles has more than one entry
Promotions(work_history) ==
    LET named == {i \in 1..Len(work_history) : work_history[i].company # ""}
        companies == {work_history[i].company : i \in named}
    IN  Cardinality({c \in companies :
            Cardinality({i \in named : work_history[i].company = c}) > 1})

check_career_progression(work_history, today) ==
    IF work_history = <<>> THEN Ret(0, <<"No work experience listed">>)
    ELSE LET limited == _calculate_total_months(work_history, today) < 2 * 12
             promotions == Promotions(work_history)
             has_progression == \E i \in 1..Len(work_history) :
                                    TitleKeywords[work_history[i].title] \cap seniority_keywords # {}
             flat == ~has_progression /\ Len(work_history) > 2
             score == 5 * Milli - (IF limited THEN 2 * Milli ELSE 0)
                                + (IF promotions > 0 THEN 2 * Milli ELSE 0)
                                - (IF flat THEN Milli ELSE 0)
         IN  Ret(Min(10 * Milli, Max(0, score)),
                 (IF limited THEN <<"Limited experience">> ELSE <<>>)
              \o (IF promotions > 0
                  THEN <<"Career progression: " \o ToString(promotions) \o " promotion(s) detected">>
                  ELSE <<>>)
              \o (IF flat THEN <<"No clear seniority progression in titles">> ELSE <<>>))

-----------------------------------------------------------------------------
(* Phase 4: JDAlignmentChecker                                             *)

\* kw is [ok, terms, matched, tech_matched, tech_missing]: the TF-IDF terms of
\* the JD, how many occur in the resume, and how many of the matched / missing
\* terms is_valid_tech accepts; ok = FALSE when the vectorizer raises.
check_keyword_alignment(resume_empty, jd_empty, kw) ==
    IF jd_empty \/ resume_empty THEN Ret(15 * Milli, <<>>)
    ELSE IF ~kw.ok THEN Ret(7500, <<>>)
    ELSE LET matched_tech == Min(kw.tech_matched, 15)       \* [:15]
             missing_tech == Min(kw.tech_missing, 10)       \* [:10]
             total_tech == matched_tech + missing_tech
             \* score = match_rate * 15 * tenths / 10, match_rate = matched / terms
             scaled(tenths) == IF kw.terms = 0 THEN 0
                               ELSE (kw.matched * 15 * Milli * tenths) \div (10 * kw.terms)
             \* tech_match_rate < k / 10, the rate being 1.0 without technical terms
             tech_below(k) == total_tech > 0 /\ 10 * matched_tech < k * total_tech
         IN  IF total_tech >= 3 /\ tech_below(4)
                 THEN Ret(scaled(2), <<"CRITICAL MISMATCH: few technical skills matched">>)
             ELSE IF total_tech >= 3 /\ tech_below(6)
                 THEN Ret(scaled(4), <<"Major gap: Missing key technical skills">>)
             ELSE IF tech_below(8)
                 THEN Ret(scaled(7), <<"Missing technical skills">>)
             ELSE Ret(scaled(10),
                      IF kw.terms > 0 /\ 10 * kw.matched >= 8 * kw.terms
                      THEN <<"Excellent match">> ELSE <<>>)

\* skills is [n, contextual]: the number of listed skills and how many of
\* them occur in the experience text.
check_skill_context(skills) ==
    IF skills.n = 0 THEN Ret(0, <<"No skills listed">>)
    ELSE LET at_least(k) == 10 * skills.contextual >= k * skills.n   \* context_rate >= k / 10
             score == IF at_least(7) THEN 5000
                      ELSE IF at_least(5) THEN 4000
                      ELSE IF at_least(3) THEN 3500
                      ELSE 2500
             note == IF ~at_least(3) THEN "Only a few skills demonstrated in experience"
                     ELSE IF ~at_least(6) THEN "Fair skill context"
                     ELSE "Strong skill context"
         IN  Ret(score, <<note>>)

\* sem is [kb, tfidf_ok, terms, found, encode_ok, sim]: whether the checker
\* holds a KB, the JD's critical terms (at most 10) and how many occur in the
\* resume (tfidf_ok = FALSE when the vectorizer raises), and the cosine
\* similarity of the two embeddings in thousandths (encode_ok = FALSE when
\* the embedding model is missing or encode raises).
SemanticFeedback(sim, found, terms) ==
    IF sim >= 650 /\ 2 * found >= terms THEN "Strong match"
    ELSE IF sim >= 500 /\ 100 * found >= 35 * terms THEN "Good match"
    ELSE IF 10 * found < 3 * terms THEN "Weak match - wrong role fit"
    ELSE "Moderate match"

_kb_enhanced_semantic_fit(sem) ==
    LET \* critical_match_rate = found / terms, 0.5 when TF-IDF failed
        found == IF sem.tfidf_ok /\ sem.terms > 0 THEN sem.found ELSE 1
        terms == IF sem.tfidf_ok /\ sem.terms > 0 THEN sem.terms ELSE 2
        rate == (1000 * found) \div terms
        mult == IF 10 * found >= 6 * terms THEN Min(1200, 800 + (400 * found) \div terms)
                ELSE IF 100 * found >= 35 * terms THEN Max(700, rate + 300)
                ELSE 500
    IN  IF sem.tfidf_ok /\ 4 * found < terms
            THEN Ret((found * 10 * Milli) \div terms, <<"Critical mismatch - missing terms">>)
        ELSE IF sem.encode_ok
            THEN Ret((sem.sim * 20 * mult) \div 1000, <<SemanticFeedback(sem.sim, found, terms)>>)
        ELSE Ret(5 * Milli, <<"Semantic analysis failed">>)

\* raises when encode raises; check_semantic_fit catches it
_direct_semantic_fit(sem) ==
    IF ~sem.encode_ok THEN Raise
    ELSE Ret(sem.sim * 20,
             IF sem.sim >= 700 THEN <<"Strong semantic match">>
             ELSE IF sem.sim < 500 THEN <<"Low job-fit - tailor resume to JD">>
             ELSE <<>>)

\* check_semantic_fit with the two input tests in the other order
check_semantic_fit_jd_first(resume_empty, jd_empty, sem) ==
    IF jd_empty THEN Ret(20 * Milli, <<>>)
    ELSE IF resume_empty THEN Ret(0, <<"Invalid resume text">>)
    ELSE LET r == IF sem.kb THEN _kb_enhanced_semantic_fit(sem) ELSE _direct_semantic_fit(sem)
         IN  IF r.raised THEN Ret(5 * Milli, <<"Semantic analysis failed">>) ELSE r

check_semantic_fit(resume_empty, jd_empty, sem) ==
    IF resume_empty THEN Ret(0, <<"Invalid resume text">>)
    ELSE IF jd_empty THEN Ret(20 * Milli, <<>>)
    ELSE LET r == IF sem.kb THEN _kb_enhanced_semantic_fit(sem) ELSE _direct_semantic_fit(sem)
         IN  IF r.raised THEN Ret(5 * Milli, <<"Semantic analysis failed">>) ELSE r

\* true when check_semantic_fit calls semantic_model.encode
EncodeCalled(resume_empty, jd_empty, sem) ==
    /\ ~resume_empty /\ ~jd_empty
    /\ sem.kb => ~(sem.tfidf_ok /\ sem.terms > 0 /\ 4 * sem.found < sem.terms)

-----------------------------------------------------------------------------
(* Phase 5: ImpactChecker and ml_core.experience_parser                    *)

\* exp is [empty, metrics, has_experience, ml_matches]: the experience text is
\* '' or not, the matches of ImpactChecker's regexes and spaCy patterns, whether
\* it is longer than 100 characters with an experience verb, and the matches
\* of experience_parser's patterns.
check_quantified_achievements(exp) ==
    IF exp.empty THEN Ret(0, <<"No experience section to analyze">>)
    ELSE LET score == IF exp.metrics >= 5 THEN 10 * Milli
                      ELSE IF exp.metrics >= 3 THEN 8 * Milli
                      ELSE IF exp.metrics >= 1 THEN 6 * Milli
                      ELSE IF exp.has_experience THEN 5 * Milli
                      ELSE 0
             note == IF exp.metrics = 0 THEN "Add quantified achievements (%, $, numbers)"
                     ELSE IF exp.metrics < 3 THEN "metric(s) found - add more for stronger impact"
                     ELSE "Strong quantification"
         IN  Ret(score, <<note>>)

\* contact is [empty, linkedin, github, portfolio]
check_online_presence(contact) ==
    IF contact.empty THEN Ret(0, <<>>)
    ELSE Ret((IF contact.linkedin THEN 2 * Milli ELSE 0)
             + (IF contact.github THEN 3 * Milli ELSE IF contact.portfolio THEN 2 * Milli ELSE 0),
             <<IF contact.linkedin THEN "LinkedIn profile included" ELSE "Add LinkedIn profile URL",
               IF contact.github THEN "GitHub profile included"
               ELSE IF contact.portfolio THEN "Portfolio/website included"
               ELSE "Consider adding GitHub or portfolio link">>)

\* a 0-100 score, in thousandths
quantify_impact(exp) ==
    IF exp.empty THEN 0
    ELSE IF exp.ml_matches >= 5 THEN 100 * Milli
    ELSE IF exp.ml_matches >= 3 THEN 75 * Milli
    ELSE IF exp.ml_matches >= 1 THEN 50 * Milli
    ELSE 0

junior_keywords == {"junior", "associate", "intern", "trainee", "entry"}
mid_keywords == {"developer", "engineer", "analyst", "consultant"}
senior_keywords == {"senior", "lead", "principal", "architect", "manager", "director", "head"}

TitleLevel(title) ==
    IF TitleKeywords[title] \cap senior_keywords # {} THEN 3
    ELSE IF TitleKeywords[title] \cap mid_keywords # {} THEN 2
    ELSE IF TitleKeywords[title] \cap junior_keywords # {} THEN 1
    ELSE 2

\* a 0-100 score, in thousandths
detect_progression(experience_blocks) ==
    IF Len(experience_blocks) < 2 THEN 0
    ELSE LET levels == [i \in 1..Len(experience_blocks) |-> TitleLevel(experience_blocks[i].title)]
             first == levels[1]
             last == levels[Len(levels)]
         IN  IF last > first THEN 80 * Milli
             ELSE IF last = first /\ \E i \in 1..Len(levels) : levels[i] > first THEN 60 * Milli
             ELSE IF \A i \in 1..Len(levels) : levels[i] = first THEN 40 * Milli
             ELSE 20 * Milli

enhance_impact_score(exp, experience_blocks) ==
    [quantified_impact |-> quantify_impact(exp),
     career_progression |-> detect_progression(experience_blocks)]

-----------------------------------------------------------------------------
(* PerfectAnalysisEngine                                                   *)

\* the keys of scores, in the order analyze inserts them
Categories ==
    <<"file_layout", "font_consistency", "readability", "professional_language",
      "date_consistency", "employment_gaps", "career_progression", "keyword_alignment",
      "skill_context", "semantic_fit", "quantified_impact", "online_presence">>

max_points ==
    [file_layout |-> 20, font_consistency |-> 10, readability |-> 10,
     professional_language |-> 10, date_consistency |-> 5, employment_gaps |-> 10,
     career_progression |-> 5, keyword_alignment |-> 15, skill_context |-> 5,
     semantic_fit |-> 20, quantified_impact |-> 10, online_presence |-> 5]

\* a weight table that gives semantic_fit 0.20: its weights sum to 0.95
weights_unbalanced ==
    [file_layout |-> 100, font_consistency |-> 50, readability |-> 50,
     professional_language |-> 50, date_consistency |-> 25, employment_gaps |-> 50,
     career_progression |-> 25, keyword_alignment |-> 150, skill_context |-> 50,
     semantic_fit |-> 200, quantified_impact |-> 150, online_presence |-> 50]

\* in thousandths: 0.10 is 100, 0.025 is 25
weights ==
    [file_layout |-> 100, font_consistency |-> 50, readability |-> 50,
     professional_language |-> 50, date_consistency |-> 25, employment_gaps |-> 50,
     career_progression |-> 25, keyword_alignment |-> 150, skill_context |-> 50,
     semantic_fit |-> 250, quantified_impact |-> 150, online_presence |-> 50]

\* max_points.get(key, 10) and weights.get(key, 0)
MaxPointsOf(key) == IF key \in DOMAIN max_points THEN max_points[key] ELSE 10
WeightOf(key) == IF key \in DOMAIN weights THEN weights[key] ELSE 0

\* the loop of _calculate_weighted_score over the first n keys: the sum of
\* (raw_score / max_val) * 100 * weight, in micro-points
RECURSIVE WeightedSum(_, _)
WeightedSum(scores, n) ==
    IF n = 0 THEN 0
    ELSE LET key == Categories[n]
             term == IF key \in DOMAIN scores
                     THEN (scores[key] * 100 * WeightOf(key)) \div MaxPointsOf(key)
                     ELSE 0
         IN  WeightedSum(scores, n - 1) + term

\* the weighted sum without min(100, max(0, ...))
_calculate_weighted_score_unclamped(scores) == WeightedSum(scores, Len(Categories))

_calculate_weighted_score(scores) ==
    Min(100 * Micro, Max(0, WeightedSum(scores, Len(Categories))))

\* score is a 0-100 score in micro-points
_calculate_grade(score) ==
    IF score >= 90 * Micro THEN "A"
    ELSE IF score >= 80 * Micro THEN "B"
    ELSE IF score >= 70 * Micro THEN "C"
    ELSE IF score >= 60 * Micro THEN "D"
    ELSE "F"

CRITICAL_MSG == "CRITICAL: Resume does not match job role requirements"
WARNING_MSG == "WARNING: Weak job-role alignment detected"

\* the penalty without the test that a job description was given
MismatchOverride_any_jd(final_score, jd_present, semantic_fit) ==
    IF semantic_fit < 4000
        THEN [final_score |-> Min(final_score, 30 * Micro), message |-> <<CRITICAL_MSG>>]
    ELSE IF semantic_fit < 7000
        THEN [final_score |-> Min(final_score, 50 * Micro), message |-> <<WARNING_MSG>>]
    ELSE [final_score |-> final_score, message |-> <<>>]

\* final_score after the global mismatch penalty, and the message it inserts
MismatchOverride(final_score, jd_present, semantic_fit) ==
    IF jd_present /\ semantic_fit < 4000
        THEN [final_score |-> Min(final_score, 30 * Micro), message |-> <<CRITICAL_MSG>>]
    ELSE IF jd_present /\ semantic_fit < 7000
        THEN [final_score |-> Min(final_score, 50 * Micro), message |-> <<WARNING_MSG>>]
    ELSE [final_score |-> final_score, message |-> <<>>]

\* lines 146-168 of analyze: the weighted score, the penalty, the grade and the
\* returned dict.  weighted is the local final_score before the penalty, kept
\* beside the dict to state what the penalty did.
score_and_grade(scores, all_feedback, jd_present) ==
    LET weighted == _calculate_weighted_score(scores)
        capped == MismatchOverride(weighted, jd_present, scores.semantic_fit)
    IN  [status |-> "ok",
         weighted |-> weighted,
         final_score |-> Round1(capped.final_score),
         grade |-> _calculate_grade(capped.final_score),
         breakdown |-> scores,
         feedback |-> capped.message \o all_feedback,
         total_checks |-> Cardinality(DOMAIN scores),
         has_skill_details |-> jd_present]

\* A request is what analyze is called with:
\*   file, resume_empty, jd_present, flesch, bullets, buzzwords, work_history,
\*   kw, skills, sem, exp, contact  (see the checkers for each).
\* The result is [status |-> "raised"] when a checker's exception leaves analyze.
analyze(req, today) ==
    LET jd_empty == ~req.jd_present                    \* jd_text or ""
        layout == check_file_layout(req.file)
        font == check_font_consistency(req.file)
        readability == check_readability(req.flesch)
        language == check_professional_language(req.bullets, req.buzzwords)
        date == check_date_consistency(req.work_history)
        gaps == check_employment_gaps(req.work_history, today)
        progression == check_career_progression(req.work_history, today)
        keyword == check_keyword_alignment(req.resume_empty, jd_empty, req.kw)
        context == check_skill_context(req.skills)
        semantic == check_semantic_fit(req.resume_empty, jd_empty, req.sem)
        impact == check_quantified_achievements(req.exp)
        enhanced_scores == enhance_impact_score(req.exp, req.work_history)
        presence == check_online_presence(req.contact)
        all == <<layout, font, readability, language, date, gaps, progression,
                 keyword, context, semantic, impact, presence>>
        scores ==
            [file_layout |-> layout.score, font_consistency |-> font.score,
             readability |-> readability.score, professional_language |-> language.score,
             date_consistency |-> date.score, employment_gaps |-> gaps.score,
             career_progression |->
                 Max(progression.score, enhanced_scores.career_progression \div 20),
             keyword_alignment |-> keyword.score, skill_context |-> context.score,
             semantic_fit |-> semantic.score,
             quantified_impact |-> Max(impact.score, enhanced_scores.quantified_impact \div 10),
             online_presence |-> presence.score]
        all_feedback == Concat([i \in 1..Len(all) |-> all[i].feedback])
    IN  IF \E i \in 1..Len(all) : all[i].raised THEN [status |-> "raised"]
        ELSE score_and_grade(scores, all_feedback, req.jd_present)

-----------------------------------------------------------------------------
(* AdaptiveScorer                                                          *)
(* A Python value passed as raw_analysis is [kind, d]: kind is "dict",     *)
(* "list" (a non-empty list) or "none" (None), d the dict as a function    *)
(* from its keys.                                                          *)

\* round(v, 1) of a value in thousandths
Round1Milli(v) ==
    LET q == v \div 100
        r == v % 100
        up == (2 * r > 100) \/ (2 * r = 100 /\ q % 2 = 1)
    IN  (IF up THEN q + 1 ELSE q) * 100

\* (raw_score / max_val) * 100, in thousandths
normalize_scores(raw_scores) ==
    [key \in DOMAIN raw_scores |-> (raw_scores[key] * 100) \div MaxPointsOf(key)]

\* parsed_data is [email, phone]: whether each is present
apply_adaptive_boost(normalized_scores, parsed_data) ==
    IF parsed_data.email /\ parsed_data.phone
    THEN [key \in DOMAIN normalized_scores \cup {"online_presence"} |->
            IF key = "online_presence"
            THEN Min(100 * Milli,
                     (IF key \in DOMAIN normalized_scores THEN normalized_scores[key] ELSE 0)
                     + 5 * Milli)
            ELSE normalized_scores[key]]
    ELSE normalized_scores

\* AdaptiveScorer._calculate_grade: the same bands as the engine's
AdaptiveScorer_calculate_grade(score) ==
    IF score >= 90 * Micro THEN "A"
    ELSE IF score >= 80 * Micro THEN "B"
    ELSE IF score >= 70 * Micro THEN "C"
    ELSE IF score >= 60 * Micro THEN "D"
    ELSE "F"

\* enhance_analysis with the final score and the grade recomputed from the
\* boosted display values (the double weighting the code avoids)
enhance_analysis_recomputed(raw_analysis, parsed_data) ==
    LET d == raw_analysis.d
        boosted == apply_adaptive_boost(normalize_scores(d.breakdown), parsed_data)
        RECURSIVE Total(_)
        Total(keys) == IF keys = {} THEN 0
                       ELSE LET key == CHOOSE k \in keys : TRUE
                            IN  boosted[key] * WeightOf(key) + Total(keys \ {key})
        final_score == Min(100 * Micro, Max(0, Total(DOMAIN boosted)))
    IN  IF raw_analysis.kind # "dict" \/ DOMAIN d = {} THEN [status |-> "ValueError"]
        ELSE IF "breakdown" \notin DOMAIN d \/ "final_score" \notin DOMAIN d
            THEN [status |-> "ValueError"]
        ELSE IF "grade" \notin DOMAIN d THEN [status |-> "KeyError"]
        ELSE IF "feedback" \notin DOMAIN d \/ "total_checks" \notin DOMAIN d
            THEN [status |-> "KeyError"]
        ELSE [status |-> "ok",
              final_score |-> Round1(final_score),
              grade |-> AdaptiveScorer_calculate_grade(final_score),
              breakdown |-> [key \in DOMAIN boosted |-> Round1Milli(boosted[key])],
              feedback |-> d.feedback,
              total_checks |-> d.total_checks]

enhance_analysis(raw_analysis, parsed_data) ==
    LET d == raw_analysis.d
        boosted == apply_adaptive_boost(normalize_scores(d.breakdown), parsed_data)
    IN  IF raw_analysis.kind # "dict" \/ DOMAIN d = {} THEN [status |-> "ValueError"]
        ELSE IF "breakdown" \notin DOMAIN d \/ "final_score" \notin DOMAIN d
            THEN [status |-> "ValueError"]
        ELSE IF "grade" \notin DOMAIN d THEN [status |-> "KeyError"]
        ELSE IF "feedback" \notin DOMAIN d \/ "total_checks" \notin DOMAIN d
            THEN [status |-> "KeyError"]
        ELSE [status |-> "ok",
              final_score |-> Round1(d.final_score),
              grade |-> d.grade,
              breakdown |-> [key \in DOMAIN boosted |-> Round1Milli(boosted[key])],
              feedback |-> d.feedback,
              total_checks |-> d.total_checks]

\* the dict analyze returned, as a Python value
AsDict(result) ==
    [kind |-> "dict",
     d |-> [key \in DOMAIN result \ {"status", "weighted", "has_skill_details"} |-> result[key]]]

-----------------------------------------------------------------------------
(* MLScorer.ml_score and the fusion of MLEnhancedAnalyzer.analyze          *)

\* round(v, 2) of a value in units of 1e-5; the result is in thousandths
Round2(v) ==
    LET q == v \div 1000
        r == v % 1000
        up == (2 * r > 1000) \/ (2 * r = 1000 /\ q % 2 = 1)
    IN  (IF up THEN q + 1 ELSE q) * 10

\* ml is [embedder, encode_ok, sim, cross_encoder, predict_ok, sigmoid,
\*        tfidf_ok, tfidf_sim]: which models are loaded, whether their calls
\* succeed, and their outputs in thousandths.  The result is a 0-100 score in
\* thousandths.
_fallback_score(ml) == IF ml.tfidf_ok THEN ml.tfidf_sim ELSE 500

\* the cross-encoder step with the neutral 0.5 in place of the TF-IDF fallback
_cross_encoder_score_neutral(ml) ==
    IF ~ml.cross_encoder \/ ~ml.predict_ok THEN 500
    ELSE Min(1000, Max(0, (ml.sigmoid - 400) * 2))

_cross_encoder_score(ml) ==
    IF ~ml.cross_encoder \/ ~ml.predict_ok THEN _fallback_score(ml)
    \* np.clip((normalized - 0.4) / (0.9 - 0.4), 0, 1)
    ELSE Min(1000, Max(0, (ml.sigmoid - 400) * 2))

\* ml also holds [rank_model, rank_ok, rank_out]: whether the LightGBM ranker
\* is loaded, whether its predict succeeds, and its output in thousandths.
\* np.clip((raw_ml - 0.4) / (0.9 - 0.4) * 100, 0, 100), a 0-100 score in thousandths
_fusion_score(ce_score, ml) ==
    IF ml.rank_ok THEN Min(100 * Milli, Max(0, (ml.rank_out - 400) * 200))
    ELSE Min(100 * Milli, Max(0, (ce_score - 400) * 200))

\* the models ml_score calls, in the order it calls them ("neutral" is the
\* constant of the except branch of _fallback_score)
ModelsConsulted(resume_empty, jd_empty, ml) ==
    IF resume_empty \/ jd_empty THEN <<>>
    ELSE (IF ml.embedder THEN <<"embedder">> ELSE <<>>)
      \o (IF ml.embedder /\ ml.encode_ok THEN <<>>
          ELSE (IF ml.cross_encoder THEN <<"cross_encoder">> ELSE <<>>)
            \o (IF ml.cross_encoder /\ ml.predict_ok THEN <<>>
                ELSE <<"tfidf">> \o (IF ml.tfidf_ok THEN <<>> ELSE <<"neutral">>)))

\* ml_score without the np.clip of the embedding path
ml_score_unclipped(resume_empty, jd_empty, ml) ==
    IF resume_empty \/ jd_empty THEN [score |-> 0, explanation |-> "Invalid input"]
    ELSE IF ml.embedder /\ ml.encode_ok
        THEN [score |-> Round2(((ml.sim - 250) * 55000) \div 6 + 40 * 100000),
              explanation |-> "embedding"]
    ELSE [score |-> _cross_encoder_score(ml) * 100, explanation |-> "cross-encoder"]

ml_score(resume_empty, jd_empty, ml) ==
    IF resume_empty \/ jd_empty THEN [score |-> 0, explanation |-> "Invalid input"]
    ELSE IF ml.embedder /\ ml.encode_ok
        \* np.clip((similarity - 0.25) / (0.85 - 0.25) * 55 + 40, 40, 95), in 1e-5
        THEN LET raw == ((ml.sim - 250) * 55000) \div 6 + 40 * 100000
                 clipped == Min(95 * 100000, Max(40 * 100000, raw))
             IN  [score |-> Round2(clipped), explanation |-> "embedding"]
    ELSE [score |-> _cross_encoder_score(ml) * 100, explanation |-> "cross-encoder"]

\* lines 108-117 of MLEnhancedAnalyzer.analyze: rule_score is a 0-100 score in
\* micro-points, ml a 0-100 score in thousandths, breakdown the raw breakdown
FormattingPenalty(breakdown) ==
    LET file_layout == IF "file_layout" \in DOMAIN breakdown
                       THEN breakdown.file_layout ELSE 50 * Milli
        \* max(0, (100 - file_layout) / 10), in thousandths
        formatting_penalty == Max(0, (100 * Milli - file_layout) \div 10)
    \* min(0.1 * formatting_penalty, 10), in micro-points
    IN  Min(formatting_penalty * 100, 10 * Micro)

FusedScore(rule_score, ml, breakdown) ==
    Max((rule_score + ml * Milli) \div 2 - FormattingPenalty(breakdown), 0)

\* The handler, for a resume that parses.  Without a job description no
\* analysis is made; an exception of analyze leaves the handler.
MLEnhancedAnalyzer_analyze(req, ml, today) ==
    LET raw_analysis == analyze(req, today)
        enhanced_analysis == enhance_analysis(AsDict(raw_analysis), req.parsed_data)
        scored == ml_score(req.resume_empty, ~req.jd_present, ml)
        fused_score == FusedScore(enhanced_analysis.final_score, scored.score,
                                  raw_analysis.breakdown)
    IN  IF ~req.jd_present THEN [status |-> "ok", has_analysis |-> FALSE]
        ELSE IF raw_analysis.status # "ok" THEN [status |-> "raised"]
        \* raw holds raw_analysis and rule_score the final_score before the
        \* fusion: locals of the handler, kept to state what the fusion did
        ELSE [status |-> "ok", has_analysis |-> TRUE,
              ml_score |-> scored.score,
              rule_score |-> enhanced_analysis.final_score,
              raw |-> raw_analysis,
              analysis |-> [enhanced_analysis EXCEPT
                                !.final_score = Round1(fused_score),
                                !.grade = AdaptiveScorer_calculate_grade(fused_score)]]

-----------------------------------------------------------------------------
(* Inputs of the scoring pipeline                                          *)

Page(t, i) == [tables |-> t, images |-> i]
File(ext, pages, bad_fonts) ==
    [ext |-> ext, readable |-> TRUE, pages |-> pages,
     many_fonts |-> bad_fonts, non_standard |-> bad_fonts, size_out |-> bad_fonts]

Files ==
    { File("pdf", <<Page(FALSE, FALSE)>>, FALSE),
      File("pdf", <<Page(TRUE, TRUE), Page(TRUE, FALSE)>>, TRUE),
      File("txt", <<>>, FALSE) }

Date(kind, year, month) == [kind |-> kind, ym |-> year * 12 + month - 1]
Job(company, title, start_date, end_date) ==
    [company |-> company, title |-> title, start_date |-> start_date, end_date |-> end_date]

Histories ==
    { <<>>,
      \* one long job
      << Job("Acme", "Developer", Date("mm/yyyy", 2015, 1), Date("present", 0, 1)) >>,
      \* a promotion, listed newest first, with a 17 month gap
      << Job("Acme", "Senior Developer", Date("mm/yyyy", 2019, 6), Date("present", 0, 1)),
         Job("Acme", "Developer", Date("mm/yyyy", 2015, 1), Date("mm/yyyy", 2018, 1)) >>,
      \* three short jobs without a seniority keyword
      << Job("Acme", "Clerk", Date("mon yyyy", 2024, 1), Date("mon yyyy", 2024, 4)),
         Job("Globex", "Clerk", Date("mon yyyy", 2024, 5), Date("mon yyyy", 2024, 9)),
         Job("Initech", "Clerk", Date("mon yyyy", 2024, 10), Date("month yyyy", 2025, 1)) >>,
      \* a start date dateutil cannot parse
      << Job("Acme", "Developer", Date("mm/yyyy", 2015, 1), Date("mm/yyyy", 2018, 1)),
         Job("Globex", "Team Lead", Date("bad", 0, 1), Date("present", 0, 1)) >> }

Keywords(terms, matched, tech_matched, tech_missing) ==
    [ok |-> TRUE, terms |-> terms, matched |-> matched,
     tech_matched |-> tech_matched, tech_missing |-> tech_missing]

Semantic(kb, found, encode_ok, sim) ==
    [kb |-> kb, tfidf_ok |-> TRUE, terms |-> 10, found |-> found,
     encode_ok |-> encode_ok, sim |-> sim]

\* what analyze reads from resume_text and jd_text:
\* [resume_empty, jd_present, kw, sem]
Text(resume_empty, jd_present, kw, sem) ==
    [resume_empty |-> resume_empty, jd_present |-> jd_present, kw |-> kw, sem |-> sem]

Texts ==
    LET none == Keywords(0, 0, 0, 0)
        good == Keywords(20, 20, 8, 0)
        poor == Keywords(20, 6, 1, 6)
    IN  { Text(FALSE, FALSE, none, Semantic(TRUE, 0, TRUE, 0)),       \* no JD
          Text(TRUE, TRUE, none, Semantic(TRUE, 0, TRUE, 0)),         \* no resume text
          Text(FALSE, TRUE, poor, Semantic(TRUE, 2, TRUE, 700)),      \* critical terms missing
          Text(FALSE, TRUE, poor, Semantic(TRUE, 3, TRUE, 600)),
          Text(FALSE, TRUE, poor, Semantic(FALSE, 0, TRUE, 0 - 50)),  \* opposed embeddings
          Text(FALSE, TRUE, good, Semantic(TRUE, 5, TRUE, 650)),
          Text(FALSE, TRUE, good, Semantic(TRUE, 10, FALSE, 0)),      \* no embedding model
          Text(FALSE, TRUE, good, Semantic(TRUE, 8, TRUE, 713)),
          Text(FALSE, TRUE, good, Semantic(FALSE, 0, TRUE, 899)),
          Text(FALSE, TRUE, good, Semantic(FALSE, 0, TRUE, 999)),
          Text(FALSE, TRUE, good, Semantic(TRUE, 10, TRUE, 1000)) }

Styles ==
    { [flesch |-> [ok |-> TRUE, value |-> 70], bullets |-> [n |-> 5, action |-> 5], buzzwords |-> 0],
      [flesch |-> [ok |-> TRUE, value |-> 40], bullets |-> [n |-> 5, action |-> 2], buzzwords |-> 4],
      [flesch |-> [ok |-> FALSE, value |-> 0], bullets |-> [n |-> 0, action |-> 0], buzzwords |-> 0] }

SkillLists == { [n |-> 0, contextual |-> 0], [n |-> 4, contextual |-> 3] }

Experiences ==
    { [empty |-> TRUE, metrics |-> 0, has_experience |-> FALSE, ml_matches |-> 0],
      [empty |-> FALSE, metrics |-> 0, has_experience |-> TRUE, ml_matches |-> 3],
      [empty |-> FALSE, metrics |-> 6, has_experience |-> TRUE, ml_matches |-> 5] }

Contacts ==
    { [empty |-> TRUE, linkedin |-> FALSE, github |-> FALSE, portfolio |-> FALSE],
      [empty |-> FALSE, linkedin |-> TRUE, github |-> TRUE, portfolio |-> FALSE] }

Request(file, text, style, work_history, skills, exp, contact) ==
    [file |-> file, parsed_data |-> [email |-> TRUE, phone |-> ~contact.empty],
     contact |-> contact, resume_empty |-> text.resume_empty, jd_present |-> text.jd_present,
     kw |-> text.kw, sem |-> text.sem, flesch |-> style.flesch, bullets |-> style.bullets,
     buzzwords |-> style.buzzwords, work_history |-> work_history, skills |-> skills,
     exp |-> exp]

ParsedDatas == { [email |-> TRUE, phone |-> TRUE], [email |-> TRUE, phone |-> FALSE] }

MLInputs ==
    { [embedder |-> TRUE, encode_ok |-> TRUE, sim |-> s, cross_encoder |-> TRUE,
       predict_ok |-> TRUE, sigmoid |-> 700, tfidf_ok |-> TRUE, tfidf_sim |-> 300,
       rank_model |-> FALSE, rank_ok |-> FALSE, rank_out |-> 0]
        : s \in {100, 618, 850} }
    \cup { [embedder |-> FALSE, encode_ok |-> FALSE, sim |-> 0, cross_encoder |-> TRUE,
            predict_ok |-> TRUE, sigmoid |-> 700, tfidf_ok |-> TRUE, tfidf_sim |-> 300,
            rank_model |-> FALSE, rank_ok |-> FALSE, rank_out |-> 0] }

\* dicts a caller builds by hand for enhance_analysis (as src/test_fix.py does),
\* well formed or not
RawKeys == {"final_score", "grade", "breakdown", "feedback", "total_checks"}

good_raw ==
    [final_score |-> 85500000, grade |-> "B",
     breakdown |->
        [file_layout |-> 18000, font_consistency |-> 9000, readability |-> 8500,
         professional_language |-> 8000, date_consistency |-> 5000, employment_gaps |-> 9000,
         career_progression |-> 4500, keyword_alignment |-> 12000, skill_context |-> 4000,
         semantic_fit |-> 16000, quantified_impact |-> 8000, online_presence |-> 5000],
     feedback |-> <<>>, total_checks |-> 12]

bad_raw ==
    [final_score |-> 42300000, grade |-> "F",
     breakdown |->
        [file_layout |-> 12000, font_consistency |-> 6000, readability |-> 5000,
         professional_language |-> 4000, date_consistency |-> 3000, employment_gaps |-> 5000,
         career_progression |-> 2000, keyword_alignment |-> 4000, skill_context |-> 1500,
         semantic_fit |-> 6000, quantified_impact |-> 2000, online_presence |-> 2000],
     feedback |-> <<>>, total_checks |-> 12]

HandMade == {good_raw, bad_raw}

RawAnalyses ==
    { [kind |-> "dict", d |-> [key \in keys |-> raw[key]]] :
        keys \in SUBSET RawKeys, raw \in HandMade }
    \cup { [kind |-> k, d |-> good_raw] : k \in {"none", "list"} }

-----------------------------------------------------------------------------
(* The scoring pipeline as a state machine: one call at a time, the caller *)
(* takes the result before the next call.                                  *)

NoResult == [status |-> "none"]
NoCall == [op |-> "none"]
NThreads == 2
Threads == 1..NThreads
Getters == {"get_kb_instance", "get_kb", "get_ml_scorer"}

Idle == analysis = NoResult /\ enhanced = NoResult /\ ml_result = NoResult

\* the state after the modules are imported
InitState ==
    /\ now = 2026 * 12 + 10
    /\ call = NoCall
    /\ analysis = NoResult /\ enhanced = NoResult /\ ml_result = NoResult
    /\ kb_loaded = FALSE /\ kb_instance = 0 /\ engine_kb = 0 /\ ml_scorer = 0
    /\ built = [kb |-> 0, ml |-> 0]
    /\ tpc = [t \in Threads |-> "idle"]
    /\ tcall = [t \in Threads |-> "none"]
    /\ tlocal = [t \in Threads |-> 0]
    /\ returned = [g \in Getters |-> {}]
    /\ clock = 0 /\ cache = {} /\ stored = {}
    /\ db = [job_descriptions |-> {}, resumes |-> {}, match_results |-> <<>>]
    /\ uuids = 0

Init == InitState /\ kb_files = "ok"

\* PerfectAnalysisEngine.analyze
Analyze ==
    /\ Idle
    /\ \E f \in Files, t \in Texts, st \in Styles, h \in Histories,
          sk \in SkillLists, e \in Experiences, c \in Contacts :
        LET req == Request(f, t, st, h, sk, e, c)
        IN  /\ call' = [op |-> "analyze", req |-> req]
            /\ analysis' = analyze(req, now)
    /\ UNCHANGED <<now, enhanced, ml_result>>
    /\ UNCHANGED <<kbVars, storeVars>>

\* AdaptiveScorer.enhance_analysis on the result of analyze, with the parsed
\* data of the same resume
EnhanceAnalysis ==
    /\ call.op = "analyze" /\ analysis.status = "ok" /\ enhanced = NoResult
    /\ call' = [op |-> "enhance_analysis", raw |-> AsDict(analysis),
                parsed_data |-> call.req.parsed_data]
    /\ enhanced' = enhance_analysis(AsDict(analysis), call.req.parsed_data)
    /\ UNCHANGED <<now, analysis, ml_result>>
    /\ UNCHANGED <<kbVars, storeVars>>

\* AdaptiveScorer.enhance_analysis on a value the caller built
EnhanceHandMade ==
    /\ Idle
    /\ \E raw \in RawAnalyses, parsed_data \in ParsedDatas :
        /\ call' = [op |-> "enhance_analysis", raw |-> raw, parsed_data |-> parsed_data]
        /\ enhanced' = enhance_analysis(raw, parsed_data)
    /\ UNCHANGED <<now, analysis, ml_result>>
    /\ UNCHANGED <<kbVars, storeVars>>

\* MLEnhancedAnalyzer.analyze
MLAnalyze ==
    /\ Idle
    /\ \E f \in Files, t \in Texts, st \in Styles, h \in Histories,
          sk \in SkillLists, e \in Experiences, c \in Contacts, ml \in MLInputs :
        LET req == Request(f, t, st, h, sk, e, c)
        IN  /\ call' = [op |-> "ml_analyze", req |-> req, ml |-> ml]
            /\ ml_result' = MLEnhancedAnalyzer_analyze(req, ml, now)
    /\ UNCHANGED <<now, analysis, enhanced>>
    /\ UNCHANGED <<kbVars, storeVars>>

\* the caller takes the result
Return ==
    /\ ~Idle
    /\ call' = NoCall
    /\ analysis' = NoResult /\ enhanced' = NoResult /\ ml_result' = NoResult
    /\ UNCHANGED now
    /\ UNCHANGED <<kbVars, storeVars>>

Next == Analyze \/ EnhanceAnalysis \/ EnhanceHandMade \/ MLAnalyze \/ Return

Spec == Init /\ [][Next]_vars

-----------------------------------------------------------------------------
(* The score computation alone, on breakdowns a caller builds by hand      *)
(* (scores at, below and above their nominal range).                       *)

ScoreValues(key) ==
    CASE key = "semantic_fit" ->
            {0 - 2000, 0, 2000, 3999, 4000, 6999, 7000, 17980, 20 * Milli, 24 * Milli}
      [] key = "career_progression" -> {0, 5 * Milli, 7 * Milli}
      [] OTHER -> {0, max_points[key] * Milli}

ScoreBreakdown ==
    /\ Idle
    /\ \E fl \in ScoreValues("file_layout"), fc \in ScoreValues("font_consistency"),
          rd \in ScoreValues("readability"), pl \in ScoreValues("professional_language"),
          dc \in ScoreValues("date_consistency"), eg \in ScoreValues("employment_gaps"),
          cp \in ScoreValues("career_progression"), ka \in ScoreValues("keyword_alignment"),
          sc \in ScoreValues("skill_context"), sf \in ScoreValues("semantic_fit"),
          qi \in ScoreValues("quantified_impact"), op \in ScoreValues("online_presence"),
          jd_present \in BOOLEAN :
        LET scores == [file_layout |-> fl, font_consistency |-> fc, readability |-> rd,
                       professional_language |-> pl, date_consistency |-> dc,
                       employment_gaps |-> eg, career_progression |-> cp,
                       keyword_alignment |-> ka, skill_context |-> sc, semantic_fit |-> sf,
                       quantified_impact |-> qi, online_presence |-> op]
        IN  /\ call' = [op |-> "score", scores |-> scores, jd_present |-> jd_present]
            /\ analysis' = score_and_grade(scores, <<"Strong match">>, jd_present)
    /\ UNCHANGED <<now, enhanced, ml_result>>
    /\ UNCHANGED <<kbVars, storeVars>>

NextScore == ScoreBreakdown \/ Return

SpecScore == Init /\ [][NextScore]_vars

-----------------------------------------------------------------------------
(* MLScorer.ml_score alone, on every combination of loaded and failing     *)
(* models.  A model that is not loaded can neither succeed nor fail.       *)

Scorers ==
    { ml \in [embedder : BOOLEAN, encode_ok : BOOLEAN,
              sim : {0 - 1000, 0, 249, 250, 550, 618, 850, 851, 1000},
              cross_encoder : BOOLEAN, predict_ok : BOOLEAN, sigmoid : {0, 399, 400, 650, 900, 1000},
              tfidf_ok : BOOLEAN, tfidf_sim : {0, 300, 1000},
              rank_model : BOOLEAN, rank_ok : BOOLEAN, rank_out : {650}] :
        /\ (ml.encode_ok => ml.embedder) /\ (~ml.encode_ok => ml.sim = 0)
        /\ (ml.predict_ok => ml.cross_encoder) /\ (~ml.predict_ok => ml.sigmoid = 0)
        /\ (~ml.tfidf_ok => ml.tfidf_sim = 0)
        /\ (ml.rank_ok => ml.rank_model) }

\* scorer.ml_score(resume_text, jd_text)
MLScore ==
    /\ Idle
    /\ \E resume_empty \in BOOLEAN, jd_empty \in BOOLEAN, ml \in Scorers :
        /\ call' = [op |-> "ml_score", resume_empty |-> resume_empty,
                    jd_empty |-> jd_empty, ml |-> ml]
        /\ ml_result' = [status |-> "ok"] @@ ml_score(resume_empty, jd_empty, ml)
    /\ UNCHANGED <<now, analysis, enhanced>>
    /\ UNCHANGED <<kbVars, storeVars>>

NextML == MLScore \/ Return

SpecML == Init /\ [][NextML]_vars

-----------------------------------------------------------------------------
(* JDAlignmentChecker.check_semantic_fit alone, with and without a KB      *)

Sems ==
    { sem \in [kb : BOOLEAN, tfidf_ok : BOOLEAN, terms : {0, 10}, found : {0, 2, 3, 5, 6, 10},
               encode_ok : BOOLEAN, sim : {0 - 50, 0, 500, 650, 834, 1000}] :
        /\ sem.found <= sem.terms
        /\ (~sem.tfidf_ok => sem.terms = 0)
        /\ (~sem.encode_ok => sem.sim = 0) }

\* checker.check_semantic_fit(resume_text, jd_text)
SemanticFit ==
    /\ Idle
    /\ \E resume_empty \in BOOLEAN, jd_empty \in BOOLEAN, sem \in Sems :
        LET r == check_semantic_fit(resume_empty, jd_empty, sem)
        IN  /\ call' = [op |-> "check_semantic_fit", resume_empty |-> resume_empty,
                        jd_empty |-> jd_empty, sem |-> sem]
            /\ analysis' = [status |-> IF r.raised THEN "raised" ELSE "ok",
                            score |-> r.score, feedback |-> r.feedback]
    /\ UNCHANGED <<now, enhanced, ml_result>>
    /\ UNCHANGED <<kbVars, storeVars>>

NextSem == SemanticFit \/ Return

SpecSem == Init /\ [][NextSem]_vars

-----------------------------------------------------------------------------
(* JDAlignmentChecker.check_keyword_alignment alone                        *)

\* 20 JD terms (or none), some of them in the resume; of the matched and of
\* the missing terms, those is_valid_tech accepts (up to more than [:15] and
\* [:10] keep)
KeywordInputs ==
    { kw \in [ok : BOOLEAN, terms : {0, 20}, matched : {0, 4, 10, 16, 20},
              tech_matched : {0, 1, 2, 3, 4, 16}, tech_missing : {0, 1, 2, 3, 4, 12}] :
        /\ kw.matched <= kw.terms
        /\ kw.tech_matched <= kw.matched
        /\ kw.tech_missing <= kw.terms - kw.matched
        /\ (~kw.ok => kw.terms = 0) }

\* checker.check_keyword_alignment(resume_text, jd_text)
KeywordAlignment ==
    /\ Idle
    /\ \E resume_empty \in BOOLEAN, jd_empty \in BOOLEAN, kw \in KeywordInputs :
        LET r == check_keyword_alignment(resume_empty, jd_empty, kw)
        IN  /\ call' = [op |-> "check_keyword_alignment", resume_empty |-> resume_empty,
                        jd_empty |-> jd_empty, kw |-> kw]
            /\ analysis' = [status |-> IF r.raised THEN "raised" ELSE "ok",
                            score |-> r.score, feedback |-> r.feedback]
    /\ UNCHANGED <<now, enhanced, ml_result>>
    /\ UNCHANGED <<kbVars, storeVars>>

NextKw == KeywordAlignment \/ Return

SpecKw == Init /\ [][NextKw]_vars

-----------------------------------------------------------------------------
(* The module-level singletons.  Threads call the getters; a thread may be *)
(* pre-empted between any two statements.  Objects are numbered in the     *)
(* order they are constructed; 0 is None.                                  *)

Goto(t, label) == tpc' = [tpc EXCEPT ![t] = label]

\* a thread calls one of the getters
CallGetter(t) ==
    /\ tpc[t] = "idle"
    /\ \E g \in Getters :
        /\ tcall' = [tcall EXCEPT ![t] = g]
        /\ Goto(t, CASE g = "get_kb_instance" -> "gki_check"
                     [] g = "get_kb" -> "gk_check"
                     [] g = "get_ml_scorer" -> "ms_check")
    /\ UNCHANGED <<kb_loaded, kb_instance, engine_kb, ml_scorer, kb_files, built, tlocal, returned>>

\* kb_singleton.get_kb_instance, line 11 and line 14
GkiCheck(t) ==
    /\ tpc[t] = "gki_check"
    /\ Goto(t, IF kb_loaded \/ kb_files = "missing" THEN "gki_return" ELSE "gk_check")
    /\ UNCHANGED <<kb_loaded, kb_instance, engine_kb, ml_scorer, kb_files, built, tcall,
                   tlocal, returned>>

\* knowledge_base_engine.get_kb: if _kb_instance is None
GkCheck(t) ==
    /\ tpc[t] = "gk_check"
    /\ Goto(t, IF engine_kb = 0 THEN "gk_construct" ELSE "gk_return")
    /\ UNCHANGED <<kb_loaded, kb_instance, engine_kb, ml_scorer, kb_files, built, tcall,
                   tlocal, returned>>

\* KnowledgeBase(kb_path): loads the model and the index, or raises
GkConstruct(t) ==
    /\ tpc[t] = "gk_construct"
    /\ IF kb_files = "ok"
       THEN /\ built' = [built EXCEPT !.kb = @ + 1]
            /\ tlocal' = [tlocal EXCEPT ![t] = built.kb + 1]
            /\ Goto(t, "gk_assign")
       ELSE \* get_kb_instance catches the exception, a direct caller gets it
            /\ Goto(t, IF tcall[t] = "get_kb_instance" THEN "gki_except" ELSE "idle")
            /\ UNCHANGED <<built, tlocal>>
    /\ UNCHANGED <<kb_loaded, kb_instance, engine_kb, ml_scorer, kb_files, tcall, returned>>

\* _kb_instance = <the new object>
GkAssign(t) ==
    /\ tpc[t] = "gk_assign"
    /\ engine_kb' = tlocal[t]
    /\ Goto(t, "gk_return")
    /\ UNCHANGED <<kb_loaded, kb_instance, ml_scorer, kb_files, built, tcall, tlocal, returned>>

\* return _kb_instance; in get_kb_instance the value is stored (line 16)
GkReturn(t) ==
    /\ tpc[t] = "gk_return"
    /\ IF tcall[t] = "get_kb"
       THEN /\ returned' = [returned EXCEPT !["get_kb"] = @ \cup {engine_kb}]
            /\ Goto(t, "idle")
            /\ UNCHANGED kb_instance
       ELSE /\ kb_instance' = engine_kb
            /\ Goto(t, "gki_loaded")
            /\ UNCHANGED returned
    /\ UNCHANGED <<kb_loaded, engine_kb, ml_scorer, kb_files, built, tcall, tlocal>>

\* _kb_loaded = True, line 17 or line 21
GkiSetLoaded(t) ==
    /\ tpc[t] \in {"gki_loaded", "gki_except"}
    /\ kb_loaded' = TRUE
    /\ Goto(t, "gki_return")
    /\ UNCHANGED <<kb_instance, engine_kb, ml_scorer, kb_files, built, tcall, tlocal, returned>>

\* return _kb_instance, line 23
GkiReturn(t) ==
    /\ tpc[t] = "gki_return"
    /\ returned' = [returned EXCEPT !["get_kb_instance"] = @ \cup {kb_instance}]
    /\ Goto(t, "idle")
    /\ UNCHANGED <<kb_loaded, kb_instance, engine_kb, ml_scorer, kb_files, built, tcall, tlocal>>

\* ml_scorer.get_ml_scorer: if _ml_scorer is None
MsCheck(t) ==
    /\ tpc[t] = "ms_check"
    /\ Goto(t, IF ml_scorer = 0 THEN "ms_construct" ELSE "ms_return")
    /\ UNCHANGED <<kb_loaded, kb_instance, engine_kb, ml_scorer, kb_files, built, tcall,
                   tlocal, returned>>

\* MLScorer(): loads the models; a failed load is caught inside
MsConstruct(t) ==
    /\ tpc[t] = "ms_construct"
    /\ built' = [built EXCEPT !.ml = @ + 1]
    /\ tlocal' = [tlocal EXCEPT ![t] = built.ml + 1]
    /\ Goto(t, "ms_assign")
    /\ UNCHANGED <<kb_loaded, kb_instance, engine_kb, ml_scorer, kb_files, tcall, returned>>

MsAssign(t) ==
    /\ tpc[t] = "ms_assign"
    /\ ml_scorer' = tlocal[t]
    /\ Goto(t, "ms_return")
    /\ UNCHANGED <<kb_loaded, kb_instance, engine_kb, kb_files, built, tcall, tlocal, returned>>

MsReturn(t) ==
    /\ tpc[t] = "ms_return"
    /\ returned' = [returned EXCEPT !["get_ml_scorer"] = @ \cup {ml_scorer}]
    /\ Goto(t, "idle")
    /\ UNCHANGED <<kb_loaded, kb_instance, engine_kb, ml_scorer, kb_files, built, tcall, tlocal>>

InitKB == InitState /\ kb_files \in {"ok", "missing", "broken"}

NextKB ==
    \E t \in Threads :
        /\ \/ CallGetter(t) \/ GkiCheck(t) \/ GkCheck(t) \/ GkConstruct(t) \/ GkAssign(t)
           \/ GkReturn(t) \/ GkiSetLoaded(t) \/ GkiReturn(t)
           \/ MsCheck(t) \/ MsConstruct(t) \/ MsAssign(t) \/ MsReturn(t)
        /\ UNCHANGED <<engineVars, storeVars>>

SpecKB == InitKB /\ [][NextKB]_vars

-----------------------------------------------------------------------------
(* SmartSkillMatcher                                                       *)
(* A skill string is [label, form]: label is the string lower-cased and    *)
(* stripped, form tells how it is written ("plain": as the label, "cased": *)
(* with capitals, "padded": with capitals and surrounding blanks).  Two    *)
(* strings are equal when both fields are.  A normalized string is its     *)
(* label.                                                                  *)

Raw(label, form) == [label |-> label, form |-> form]

\* skill.lower().strip()
_normalize(skill) == skill.label

EQUIVALENTS ==
    [sql |-> {"t-sql", "sql server", "mysql", "postgresql", "plsql"},
     power_bi |-> {"powerbi", "power bi desktop", "power bi service", "power bi dataflows"},
     etl |-> {"etl automation", "etl tools", "etl processes", "data integration"},
     data_modeling |-> {"data modelling", "database modeling", "data model"},
     data_warehousing |-> {"data warehouse", "dwh", "data mart"},
     python |-> {"python3", "python 3", "py"},
     javascript |-> {"js", "node.js", "nodejs"},
     machine_learning |-> {"ml", "deep learning", "neural networks"},
     aws |-> {"amazon web services", "ec2", "s3", "lambda"},
     azure |-> {"microsoft azure", "azure cloud"},
     docker |-> {"containerization", "containers"},
     kubernetes |-> {"k8s", "container orchestration"},
     tableau |-> {"tableau desktop", "tableau server"},
     excel |-> {"microsoft excel", "ms excel", "spreadsheets"},
     communication |-> {"communication skills", "interpersonal skills"},
     problem_solving |-> {"problem-solving", "analytical skills", "critical thinking"}]

\* the key of EQUIVALENTS behind a field name: 'power bi' is power_bi
BaseSkill(key) ==
    CASE key = "power_bi" -> "power bi"
      [] key = "data_modeling" -> "data modeling"
      [] key = "data_warehousing" -> "data warehousing"
      [] key = "machine_learning" -> "machine learning"
      [] key = "problem_solving" -> "problem solving"
      [] OTHER -> key

\* SmartSkillMatcher(): fuzzy_threshold and kb_threshold, in thousandths
fuzzy_threshold == 800
kb_threshold == 500

\* a in b for the strings of the model: Python's substring test
Contains(a, b) ==
    \/ a = b
    \/ <<a, b>> \in {<<"sql", "mysql">>, <<"python", "python (computer programming)">>}

\* SequenceMatcher(None, a, b).ratio() for the labels of the model, in
\* thousandths (difflib: 2 x matches / total length)
SequenceMatcherRatio(a, b) ==
    IF a = b THEN 1000
    ELSE LET ratios ==
                [python |-> [mysql |-> 182, kubernetes |-> 125, tableu |-> 167, rdbms |-> 0],
                 sql |-> [python |-> 0, mysql |-> 750, kubernetes |-> 154, tableu |-> 222,
                          rdbms |-> 250],
                 k8s |-> [python |-> 0, mysql |-> 250, kubernetes |-> 308, tableu |-> 0,
                          rdbms |-> 250],
                 tableau |-> [python |-> 154, mysql |-> 167, kubernetes |-> 235, tableu |-> 923,
                              rdbms |-> 167],
                 postgres |-> [python |-> 286, mysql |-> 154, kubernetes |-> 333, tableu |-> 286,
                               rdbms |-> 154]]
         IN  ratios[a][b]

\* A KB is [present, search]: search maps a query to the outcome of
\* kb.search(query, type_filter='skill'): [kind, label, score] with kind
\* "hit" (the top result), "none" (no result) or "raise".
Hit(label, score) == [kind |-> "hit", label |-> label, score |-> score]
NoHit == [kind |-> "none", label |-> "", score |-> 0]
Raises == [kind |-> "raise", label |-> "", score |-> 0]

SkillLabels ==
    {"python", "sql", "mysql", "k8s", "kubernetes", "tableau", "tableu", "postgres", "rdbms"}

\* 1. exact match
ExactRule(jd_skill, resume_skills) ==
    \E i \in 1..Len(resume_skills) : resume_skills[i] = jd_skill

\* 2. substring match
SubstringRule(jd_skill, resume_skills) ==
    \E i \in 1..Len(resume_skills) :
        Contains(jd_skill, resume_skills[i]) \/ Contains(resume_skills[i], jd_skill)

\* 3. the loop over resume_skills of the KB step, from position i:
\* "match", "no" or "raised"
RECURSIVE KBLoop(_, _, _, _, _)
KBLoop(jd_skill, jd_kb_skill, resume_skills, i, kb) ==
    IF i > Len(resume_skills) THEN "no"
    ELSE LET resume_results == kb.search[resume_skills[i]]
         IN  IF resume_results.kind = "raise" THEN "raised"
             ELSE IF resume_results.kind = "none"
                 THEN KBLoop(jd_skill, jd_kb_skill, resume_skills, i + 1, kb)
             ELSE IF jd_kb_skill = resume_results.label /\ resume_results.score >= kb_threshold
                 THEN "match"
             ELSE IF /\ resume_results.score >= kb_threshold
                     /\ \/ Contains(jd_skill, resume_results.label)
                        \/ Contains(resume_results.label, jd_skill)
                 THEN "match"
             ELSE KBLoop(jd_skill, jd_kb_skill, resume_skills, i + 1, kb)

\* 3. KB semantic matching: the body of the try block
KBSearch(jd_skill, resume_skills, kb) ==
    LET jd_results == kb.search[jd_skill]
    IN  IF jd_results.kind = "raise" THEN "raised"
        ELSE IF jd_results.kind = "none" THEN "no"
        ELSE KBLoop(jd_skill, jd_results.label, resume_skills, 1, kb)

KBRule(jd_skill, resume_skills, kb) ==
    kb.present /\ KBSearch(jd_skill, resume_skills, kb) = "match"

\* 4. equivalents
EquivalentsRule(jd_skill, resume_skills) ==
    \E key \in DOMAIN EQUIVALENTS :
        /\ jd_skill = BaseSkill(key) \/ jd_skill \in EQUIVALENTS[key]
        /\ \E i \in 1..Len(resume_skills) :
                resume_skills[i] = BaseSkill(key) \/ resume_skills[i] \in EQUIVALENTS[key]

\* 5. fuzzy match
FuzzyRule(jd_skill, resume_skills) ==
    \E i \in 1..Len(resume_skills) :
        SequenceMatcherRatio(jd_skill, resume_skills[i]) >= fuzzy_threshold

\* _is_match with a KB step that gives up on an exception (return False)
MatchRule_kb_fatal(jd_skill, resume_skills, kb) ==
    IF ExactRule(jd_skill, resume_skills) THEN 1
    ELSE IF SubstringRule(jd_skill, resume_skills) THEN 2
    ELSE IF kb.present /\ KBSearch(jd_skill, resume_skills, kb) = "raised" THEN 0
    ELSE IF KBRule(jd_skill, resume_skills, kb) THEN 3
    ELSE IF EquivalentsRule(jd_skill, resume_skills) THEN 4
    ELSE IF FuzzyRule(jd_skill, resume_skills) THEN 5
    ELSE 0

\* the rule of _is_match that returns True (1 to 5), 0 when it returns False
MatchRule(jd_skill, resume_skills, kb) ==
    IF ExactRule(jd_skill, resume_skills) THEN 1
    ELSE IF SubstringRule(jd_skill, resume_skills) THEN 2
    ELSE IF KBRule(jd_skill, resume_skills, kb) THEN 3
    ELSE IF EquivalentsRule(jd_skill, resume_skills) THEN 4
    ELSE IF FuzzyRule(jd_skill, resume_skills) THEN 5
    ELSE 0

_is_match(jd_skill, resume_skills, kb) == MatchRule(jd_skill, resume_skills, kb) # 0

\* match_percentage is in thousandths of a percent
match_skills(resume_skills, jd_skills, kb) ==
    IF jd_skills = <<>> THEN [matched |-> {}, missing |-> <<>>, match_percentage |-> 100 * Milli]
    ELSE LET resume_normalized == [i \in 1..Len(resume_skills) |-> _normalize(resume_skills[i])]
             hit(i) == _is_match(_normalize(jd_skills[i]), resume_normalized, kb)
             \* matched is a set of the strings of jd_skills
             matched == {jd_skills[i] : i \in {j \in 1..Len(jd_skills) : hit(j)}}
             missing == SelectSeq(jd_skills,
                            LAMBDA skill : ~_is_match(_normalize(skill), resume_normalized, kb))
         IN  [matched |-> matched, missing |-> missing,
              match_percentage |-> (Cardinality(matched) * 100 * Milli) \div Len(jd_skills)]

MaxSkills == 2

SeqsUpTo(S, n) == UNION {[1..k -> S] : k \in 0..n}

\* ["python", "Python ", "sql", "k8s", "tableau", "postgres"]
RequiredSkills ==
    {Raw("python", "plain"), Raw("python", "padded"), Raw("sql", "plain"), Raw("k8s", "plain"),
     Raw("tableau", "plain"), Raw("postgres", "plain")}

\* ["Python", "MySQL", "kubernetes", "tableu", "rdbms"]
CandidateSkills ==
    {Raw("python", "cased"), Raw("mysql", "cased"), Raw("kubernetes", "plain"),
     Raw("tableu", "plain"), Raw("rdbms", "plain")}

\* no KB; a KB that maps postgres and rdbms to one skill; the same with a
\* score below kb_threshold for rdbms; a KB whose search raises for k8s,
\* tableau and rdbms
KnowledgeBases ==
    LET found(rdbms_score) ==
            [q \in SkillLabels |->
                CASE q = "postgres" -> Hit("relational database", 800)
                  [] q = "rdbms" -> Hit("relational database", rdbms_score)
                  [] q = "tableau" -> Hit("tableau", 1000)
                  [] q = "tableu" -> Hit("tableau", 600)
                  [] OTHER -> NoHit]
        failing ==
            [q \in SkillLabels |->
                CASE q = "postgres" -> Hit("relational database", 800)
                  [] q \in {"k8s", "tableau", "rdbms"} -> Raises
                  [] OTHER -> NoHit]
    IN  { [present |-> FALSE, search |-> [q \in SkillLabels |-> NoHit]],
          [present |-> TRUE, search |-> found(700)],
          [present |-> TRUE, search |-> found(400)],
          [present |-> TRUE, search |-> failing] }

\* matcher.match_skills(resume_skills, jd_skills)
MatchSkills ==
    /\ Idle
    /\ \E resume_skills \in SeqsUpTo(CandidateSkills, MaxSkills),
          jd_skills \in SeqsUpTo(RequiredSkills, MaxSkills), kb \in KnowledgeBases :
        /\ call' = [op |-> "match_skills", resume_skills |-> resume_skills,
                    jd_skills |-> jd_skills, kb |-> kb]
        /\ analysis' = [status |-> "ok"] @@ match_skills(resume_skills, jd_skills, kb)
    /\ UNCHANGED <<now, enhanced, ml_result>>
    /\ UNCHANGED <<kbVars, storeVars>>

NextSkills == MatchSkills \/ Return

SpecSkills == Init /\ [][NextSkills]_vars

-----------------------------------------------------------------------------
(* analyze called at different times: _parse_date reads datetime.now() for *)
(* an end date that is 'present' or empty.                                 *)

MaxMonths == 2

\* a current job that began 23 months before the first call, and one that
\* began long before
CurrentJobs ==
    { << Job("Acme", "Developer", Date("mm/yyyy", 2024, 12), Date("present", 0, 1)) >>,
      << Job("Acme", "Developer", Date("mm/yyyy", 2015, 1), Date("present", 0, 1)) >> }

\* PerfectAnalysisEngine.analyze, the time of the call recorded
AnalyzeAt ==
    /\ Idle
    /\ \E f \in Files, t \in Texts, st \in Styles, h \in CurrentJobs :
        LET sk == [n |-> 4, contextual |-> 3]
            e == [empty |-> FALSE, metrics |-> 0, has_experience |-> TRUE, ml_matches |-> 3]
            c == [empty |-> TRUE, linkedin |-> FALSE, github |-> FALSE, portfolio |-> FALSE]
            req == Request(f, t, st, h, sk, e, c)
        IN  /\ call' = [op |-> "analyze", req |-> req, at |-> now]
            /\ analysis' = analyze(req, now)
    /\ UNCHANGED <<now, enhanced, ml_result>>
    /\ UNCHANGED <<kbVars, storeVars>>

\* a month passes
Tick ==
    /\ now - (2026 * 12 + 10) < MaxMonths
    /\ now' = now + 1
    /\ UNCHANGED <<call, analysis, enhanced, ml_result>>
    /\ UNCHANGED <<kbVars, storeVars>>

NextClock == AnalyzeAt \/ Tick \/ Return

SpecClock == Init /\ [][NextClock]_vars

-----------------------------------------------------------------------------
(* utils/kb_helpers.normalize_skill_inputs                                 *)
(* A Python string is [text, pad]: text is the string stripped, pad tells  *)
(* whether blanks surround it ('' is ["", FALSE], '  ' is ["", TRUE]).  An *)
(* entry of skills_raw is None ([kind |-> "none"]), a string ([kind |->    *)
(* "str", value]) or a dict ([kind |-> "dict", label, name, skill], each   *)
(* field a string or Absent when the key is missing or maps to None).      *)
(* The result is the list of the stripped strings.                         *)

Str(text, pad) == [none |-> FALSE, text |-> text, pad |-> pad]
Absent == [none |-> TRUE, text |-> "", pad |-> FALSE]
None == [kind |-> "none"]
PlainStr(value) == [kind |-> "str", value |-> value]
Dict(label, name, skill) == [kind |-> "dict", label |-> label, name |-> name, skill |-> skill]

RECURSIVE normalize_skill_inputs(_)
normalize_skill_inputs(skills_raw) ==
    IF skills_raw = <<>> THEN <<>>
    ELSE LET s == Head(skills_raw)
             \* bool(x) of a field: None and '' are falsy
             truthy(x) == ~x.none /\ (x.text # "" \/ x.pad)
             \* s.get("label") or s.get("name") or s.get("skill") or ""
             lbl == IF truthy(s.label) THEN s.label
                    ELSE IF truthy(s.name) THEN s.name
                    ELSE IF truthy(s.skill) THEN s.skill
                    ELSE Str("", FALSE)
             \* x.strip()
             stripped == IF s.kind = "dict" THEN lbl.text ELSE s.value.text
             rest == normalize_skill_inputs(Tail(skills_raw))
         IN  IF s.kind = "none" THEN rest
             \* return [s for s in normalized if s]
             ELSE IF stripped = "" THEN rest
             ELSE <<stripped>> \o rest

\* None, 'Python', ' Python ', '', '  ', 'sql' and dicts with the keys
\* label, name, skill
SkillInputs ==
    { None, PlainStr(Str("Python", FALSE)), PlainStr(Str("Python", TRUE)),
      PlainStr(Str("", FALSE)), PlainStr(Str("", TRUE)), PlainStr(Str("sql", FALSE)),
      Dict(Str("Python", TRUE), Absent, Absent),
      Dict(Str("sql", FALSE), Str("SQL Server", FALSE), Absent),
      Dict(Str("", FALSE), Str("Python", FALSE), Absent),
      Dict(Str("", TRUE), Str("Python", FALSE), Absent),
      Dict(Absent, Str("Java", FALSE), Absent),
      Dict(Absent, Absent, Str("go", TRUE)),
      Dict(Absent, Absent, Absent) }

NormalizeSkillInputs ==
    /\ Idle
    /\ \E skills_raw \in SeqsUpTo(SkillInputs, MaxSkills) :
        /\ call' = [op |-> "normalize_skill_inputs", skills_raw |-> skills_raw]
        /\ analysis' = [status |-> "ok", normalized |-> normalize_skill_inputs(skills_raw)]
    /\ UNCHANGED <<now, enhanced, ml_result>>
    /\ UNCHANGED <<kbVars, storeVars>>

NextNormalize == NormalizeSkillInputs \/ Return

SpecNormalize == Init /\ [][NextNormalize]_vars

-----------------------------------------------------------------------------
(* LLMCache: one JSON file per (doc_type, MD5 of the text) in cache_dir.   *)
(* A file is [path, content, mtime]; content is the JSON text of the data, *)
(* mtime the clock when the file was written.  The data are JSON objects   *)
(* (what the LLM parser returns), which json.dump and json.load carry over *)
(* unchanged.                                                              *)

\* LLMCache(ttl_hours = 24)
ttl_hours == 24

MaxElapse == 3

DocTexts == {"resume of John Doe", "Different text"}
DocTypes == {"resume", "jd"}
DocData == {[name |-> "John Doe"], [name |-> "Jane Roe"]}

\* _get_cache_path(_get_hash(text), doc_type) with the key ignoring doc_type
CachePath_text_only(text, doc_type) ==
    LET md5 == [t \in DocTexts |-> IF t = "Different text" THEN "8f3a" ELSE "c41d"]
    IN  md5[text] \o ".json"

\* _get_cache_path(_get_hash(text), doc_type): the MD5 digests of the texts
\* of the model are distinct
CachePath(text, doc_type) ==
    LET md5 == [t \in DocTexts |-> IF t = "Different text" THEN "8f3a" ELSE "c41d"]
    IN  doc_type \o "_" \o md5[text] \o ".json"

\* cache.get(text, doc_type)
CacheGet ==
    \E text \in DocTexts, doc_type \in DocTypes :
        LET cache_path == CachePath(text, doc_type)
            found == {f \in cache : f.path = cache_path}
            file == CHOOSE f \in found : TRUE
        IN  /\ call' = [op |-> "get", text |-> text, doc_type |-> doc_type]
            /\ IF found = {}
               THEN /\ analysis' = [status |-> "ok", hit |-> FALSE]
                    /\ cache' = cache
               ELSE IF clock - file.mtime > ttl_hours
               THEN /\ analysis' = [status |-> "ok", hit |-> FALSE]
                    /\ cache' = cache \ {file}                  \* cache_path.unlink()
               ELSE /\ analysis' = [status |-> "ok", hit |-> TRUE, data |-> file.content.json]
                    /\ cache' = cache
            /\ UNCHANGED <<now, enhanced, ml_result, clock, stored, db, uuids>>
            /\ UNCHANGED kbVars

\* cache.set(text, doc_type, data)
CacheSet ==
    \E text \in DocTexts, doc_type \in DocTypes, data \in DocData :
        LET cache_path == CachePath(text, doc_type)
        IN  /\ call' = [op |-> "set", text |-> text, doc_type |-> doc_type]
            /\ analysis' = [status |-> "ok", hit |-> FALSE]
            \* open(cache_path, 'w') replaces the file
            /\ cache' = {f \in cache : f.path # cache_path}
                            \cup {[path |-> cache_path, content |-> [json |-> data],
                                   mtime |-> clock]}
            /\ stored' = {h \in stored : h.text # text \/ h.doc_type # doc_type}
                            \cup {[text |-> text, doc_type |-> doc_type, data |-> data,
                                   at |-> clock]}
            /\ UNCHANGED <<now, enhanced, ml_result, clock, db, uuids>>
            /\ UNCHANGED kbVars

\* cache.clear_expired()
ClearExpired ==
    /\ call' = [op |-> "clear_expired"]
    /\ analysis' = [status |-> "ok", hit |-> FALSE]
    /\ cache' = {f \in cache : ~(clock - f.mtime > ttl_hours)}
    /\ UNCHANGED <<now, enhanced, ml_result, clock, stored, db, uuids>>
    /\ UNCHANGED kbVars

\* twelve hours pass
Elapse ==
    /\ clock < 12 * MaxElapse
    /\ clock' = clock + 12
    /\ call' = [op |-> "elapse"]
    /\ analysis' = [status |-> "ok", hit |-> FALSE]
    /\ UNCHANGED <<now, enhanced, ml_result, cache, stored, db, uuids>>
    /\ UNCHANGED kbVars

NextCache == CacheGet \/ CacheSet \/ ClearExpired \/ Elapse

SpecCache == Init /\ [][NextCache]_vars

-----------------------------------------------------------------------------
(* The three checks of ExperienceChecker on work histories of up to        *)
(* MaxJobs jobs, as phase 3 of analyze calls them.                         *)

MaxJobs == 3

ExperienceJobs ==
    { Job("Acme", "Developer", Date("mm/yyyy", 2015, 1), Date("mm/yyyy", 2018, 1)),
      \* 14 months after the end of the first one
      Job("Acme", "Senior Developer", Date("mm/yyyy", 2019, 3), Date("present", 0, 1)),
      \* 6 months after the end of the first one
      Job("Globex", "Clerk", Date("mm/yyyy", 2018, 7), Date("mm/yyyy", 2018, 12)),
      \* the company and the title of the first one, no end date
      Job("Acme", "Developer", Date("mm/yyyy", 2025, 2), Date("empty", 0, 1)),
      \* dates dateutil cannot parse
      Job("Globex", "Team Lead", Date("bad", 0, 1), Date("present", 0, 1)),
      Job("Initech", "Clerk", Date("mm/yyyy", 2020, 1), Date("bad", 0, 1)),
      Job("Initech", "Clerk", Date("mon yyyy", 2021, 5), Date("mon yyyy", 2021, 9)),
      Job("Hooli", "Developer", Date("yyyy", 2022, 1), Date("yyyy", 2023, 1)) }

\* check_date_consistency, check_employment_gaps, check_career_progression
\* and _calculate_total_years on parsed_data['work_history']
ExperienceChecks ==
    /\ Idle
    /\ \E work_history \in SeqsUpTo(ExperienceJobs, MaxJobs) :
        /\ call' = [op |-> "experience", work_history |-> work_history]
        /\ analysis' =
            [status |-> "ok",
             date_consistency |-> check_date_consistency(work_history),
             employment_gaps |-> check_employment_gaps(work_history, now),
             career_progression |-> check_career_progression(work_history, now),
             total_months |-> _calculate_total_months(work_history, now)]
    /\ UNCHANGED <<now, enhanced, ml_result>>
    /\ UNCHANGED <<kbVars, storeVars>>

NextExperience == ExperienceChecks \/ Return

SpecExperience == Init /\ [][NextExperience]_vars

-----------------------------------------------------------------------------
(* The upload handlers of main.py on the tables of DatabaseManager.        *)
(* db.job_descriptions and db.resumes are sets of rows, db.match_results   *)
(* the rows in the order of their AUTOINCREMENT id.  The n-th value of     *)
(* uuid4() is the number n.  SQLite does not enforce the foreign keys (no  *)
(* PRAGMA foreign_keys is issued).                                         *)

MaxUploads == 4

\* get_batch_results(jd_id): the ids of the match_results rows of the JOIN
get_batch_results(jd_id) ==
    {i \in 1..Len(db.match_results) :
        /\ db.match_results[i].jd_id = jd_id
        /\ \E r \in db.resumes : r.id = db.match_results[i].resume_id}

\* get_batch_results_by_session(session_id)
get_batch_results_by_session(session_id) ==
    {i \in 1..Len(db.match_results) :
        /\ db.match_results[i].session_id = session_id
        /\ \E r \in db.resumes : r.id = db.match_results[i].resume_id}

\* POST /api/upload-jd
UploadJD ==
    /\ Cardinality(db.job_descriptions) + Len(db.match_results) < MaxUploads
    /\ LET jd_id == uuids + 1
           session_id == uuids + 2
       IN  /\ uuids' = uuids + 2
           \* db.save_jd
           /\ db' = [db EXCEPT !.job_descriptions =
                        @ \cup {[id |-> jd_id, session_id |-> session_id]}]
           /\ call' = [op |-> "upload_jd"]
           /\ analysis' = [status |-> "ok", jd_id |-> jd_id, session_id |-> session_id]
    /\ UNCHANGED <<now, enhanced, ml_result, clock, cache, stored>>
    /\ UNCHANGED kbVars

\* POST /api/upload-resume with the jd_id and session_id of an uploaded JD;
\* email is what the parser read from the file, parsed_ok / analysed_ok
\* whether parser.parse and analyzer.analyze returned status 'ok'
UploadResume ==
    /\ Cardinality(db.job_descriptions) + Len(db.match_results) < MaxUploads
    /\ \E jd \in db.job_descriptions, email \in {"", "a@example.com", "b@example.com"},
          parsed_ok \in BOOLEAN, analysed_ok \in BOOLEAN :
        LET jd_id == jd.id
            session_id == jd.session_id
            resume_id == uuids + 1
            existing == {r \in db.resumes : r.email = email /\ r.session_id = session_id}
            \* db.save_resume: UPDATE of the existing row, or INSERT
            saved == IF email # "" /\ existing # {} THEN db.resumes
                     ELSE db.resumes \cup {[id |-> resume_id, jd_id |-> jd_id,
                                            session_id |-> session_id, email |-> email]}
            \* db.save_match(jd_id, resume_id, ...)
            matched == Append(db.match_results,
                              [jd_id |-> jd_id, resume_id |-> resume_id,
                               session_id |-> session_id])
        IN  /\ call' = [op |-> "upload_resume", jd_id |-> jd_id, session_id |-> session_id,
                        email |-> email]
            /\ IF ~parsed_ok \/ ~analysed_ok
               THEN /\ analysis' = [status |-> "error"]
                    /\ UNCHANGED <<db, uuids>>
               ELSE /\ analysis' = [status |-> "ok", resume_id |-> resume_id]
                    /\ uuids' = uuids + 1
                    /\ db' = [db EXCEPT !.resumes = saved, !.match_results = matched]
    /\ UNCHANGED <<now, enhanced, ml_result, clock, cache, stored>>
    /\ UNCHANGED kbVars

NextUpload == UploadJD \/ UploadResume

SpecUpload == Init /\ [][NextUpload]_vars

-----------------------------------------------------------------------------
(* Properties                                                              *)

AllCategories == {Categories[i] : i \in 1..Len(Categories)}

\* C1: every entry of the breakdown analyze returns lies between 0 and the
\* max_points of its category.
BreakdownInRange ==
    (call.op = "analyze" /\ analysis.status = "ok") =>
        \A key \in AllCategories :
            /\ 0 <= analysis.breakdown[key]
            /\ analysis.breakdown[key] <= max_points[key] * Milli

\* a promotion inside one company: career_progression is 7 of 5 points
CareerProgressionAboveMax ==
    /\ call.op = "analyze" /\ analysis.status = "ok"
    /\ Len(call.req.work_history) = 2
    /\ call.req.work_history[1].company = call.req.work_history[2].company
    /\ analysis.breakdown.career_progression = 7 * Milli

\* C2: the final_score analyze returns is within [0, 100], whatever the
\* category scores are (in or out of their range), with or without a JD.
FinalScoreInRange ==
    (call.op = "score" /\ analysis.status = "ok") =>
        /\ 0 <= analysis.final_score
        /\ analysis.final_score <= 100 * Micro

\* a breakdown whose weighted sum is above 100 is reported as 100
WeightedSumClamped ==
    /\ call.op = "score" /\ analysis.status = "ok"
    /\ WeightedSum(call.scores, Len(Categories)) > 100 * Micro
    /\ analysis.final_score = 100 * Micro

\* the bands of the grade on a reported score
Band(final_score) ==
    IF final_score >= 90 * Micro THEN "A"
    ELSE IF final_score >= 80 * Micro THEN "B"
    ELSE IF final_score >= 70 * Micro THEN "C"
    ELSE IF final_score >= 60 * Micro THEN "D"
    ELSE "F"

\* C3: in the result of analyze and in the fused result of
\* MLEnhancedAnalyzer.analyze, the grade is the band of the final_score that
\* the same result reports.
GradeIsBandOfFinalScore ==
    /\ (call.op = "analyze" /\ analysis.status = "ok") =>
            analysis.grade = Band(analysis.final_score)
    /\ (call.op = "ml_analyze" /\ ml_result.status = "ok" /\ ml_result.has_analysis) =>
            ml_result.analysis.grade = Band(ml_result.analysis.final_score)

\* analyze reports 90.0 with grade B
ReportedNinetyGradedB ==
    /\ call.op = "analyze" /\ analysis.status = "ok"
    /\ analysis.final_score = 90 * Micro
    /\ analysis.grade = "B"

\* the fused result reports a score on a band boundary with the grade below it
FusedGradeBelowBand ==
    /\ call.op = "ml_analyze" /\ ml_result.status = "ok" /\ ml_result.has_analysis
    /\ ml_result.analysis.final_score \in {60 * Micro, 70 * Micro, 80 * Micro, 90 * Micro}
    /\ ml_result.analysis.grade # Band(ml_result.analysis.final_score)

\* C4: with a JD and semantic_fit < 4.0 the final score is at most 30, the
\* grade is F and the critical message is the first feedback entry; with a JD
\* and 4.0 <= semantic_fit < 7.0 the final score is at most 50 and the warning
\* is the first feedback entry; otherwise the final score is the clamped
\* weighted score (reported to one decimal) and neither message is added.
MismatchOverrideHolds ==
    (call.op = "score" /\ analysis.status = "ok") =>
        LET semantic_fit == call.scores.semantic_fit
            clamped == Min(100 * Micro, Max(0, WeightedSum(call.scores, Len(Categories))))
            messages == {analysis.feedback[i] : i \in 1..Len(analysis.feedback)}
        IN  /\ (call.jd_present /\ semantic_fit < 4 * Milli) =>
                    /\ analysis.final_score <= 30 * Micro
                    /\ analysis.grade = "F"
                    /\ analysis.feedback[1] = CRITICAL_MSG
            /\ (call.jd_present /\ 4 * Milli <= semantic_fit /\ semantic_fit < 7 * Milli) =>
                    /\ analysis.final_score <= 50 * Micro
                    /\ analysis.feedback[1] = WARNING_MSG
            /\ (~call.jd_present \/ semantic_fit >= 7 * Milli) =>
                    /\ analysis.final_score = Round1(clamped)
                    /\ CRITICAL_MSG \notin messages
                    /\ WARNING_MSG \notin messages

OthersAtMax(scores) ==
    \A key \in AllCategories \ {"semantic_fit"} : scores[key] = max_points[key] * Milli

\* semantic_fit = 2.0 with every other category at its maximum: 30, grade F
MismatchCapsMaxedResume ==
    /\ call.op = "score" /\ analysis.status = "ok" /\ call.jd_present
    /\ call.scores.semantic_fit = 2 * Milli
    /\ OthersAtMax(call.scores)
    /\ analysis.weighted > 30 * Micro
    /\ analysis.final_score = 30 * Micro
    /\ analysis.grade = "F"
    /\ analysis.feedback[1] = CRITICAL_MSG

\* C5: analyze always returns a complete result (final_score, grade, feedback
\* and a breakdown of all 12 categories) and never lets an exception out.
AnalyzeAlwaysReturns ==
    call.op = "analyze" =>
        /\ analysis.status = "ok"
        /\ {"final_score", "grade", "feedback", "breakdown"} \subseteq DOMAIN analysis
        /\ DOMAIN analysis.breakdown = AllCategories

\* an unparseable start date among two jobs: the TypeError of sorted() leaves analyze
UnparseableStartDateRaises ==
    /\ call.op = "analyze"
    /\ Len(call.req.work_history) >= 2
    /\ \E i \in 1..Len(call.req.work_history) :
            call.req.work_history[i].start_date.kind = "bad"
    /\ analysis.status = "raised"

\* C6: under any interleaving of calls to get_kb_instance, get_kb and
\* get_ml_scorer, the KnowledgeBase and the MLScorer are constructed at most
\* once, and all callers of a getter receive the same instance.
ConstructedOnce ==
    /\ built.kb <= 1
    /\ built.ml <= 1
    /\ \A g \in Getters : Cardinality(returned[g] \ {0}) <= 1

\* two callers of get_kb hold different KnowledgeBase objects
TwoKnowledgeBases ==
    /\ built.kb = 2
    /\ returned["get_kb"] = {1, 2}

\* the tables of the specification, in the order of Categories
SpecMaxPoints == <<20, 10, 10, 10, 5, 10, 5, 15, 5, 20, 10, 5>>
SpecWeights == <<100, 50, 50, 50, 25, 50, 25, 150, 50, 250, 150, 50>>

RECURSIVE SpecSum(_, _)
SpecSum(scores, n) ==
    IF n = 0 THEN 0
    ELSE SpecSum(scores, n - 1)
         + (scores[Categories[n]] * 100 * SpecWeights[n]) \div SpecMaxPoints[n]

RECURSIVE SumSeq(_, _)
SumSeq(seq, n) == IF n = 0 THEN 0 ELSE SumSeq(seq, n - 1) + seq[n]

\* C7: the score of _calculate_weighted_score is the sum over the 12
\* categories of (raw_score / max_points) x 100 x weight, clamped to [0, 100],
\* with the tables (20,10,10,10,5,10,5,15,5,20,10,5) and
\* (0.10,0.05,0.05,0.05,0.025,0.05,0.025,0.15,0.05,0.25,0.15,0.05); the
\* weights sum to 1, all categories at their maximum give 100, all at zero 0.
WeightedScoreFormula ==
    /\ SumSeq([i \in 1..Len(Categories) |-> weights[Categories[i]]], Len(Categories)) = Milli
    /\ \A i \in 1..Len(Categories) : max_points[Categories[i]] = SpecMaxPoints[i]
    /\ (call.op = "score" /\ analysis.status = "ok") =>
        /\ analysis.weighted
             = Min(100 * Micro, Max(0, SpecSum(call.scores, Len(Categories))))
        /\ (\A key \in AllCategories : call.scores[key] = max_points[key] * Milli)
                => analysis.weighted = 100 * Micro
        /\ (\A key \in AllCategories : call.scores[key] = 0) => analysis.weighted = 0

\* every category at its maximum, no JD: 100 and grade A
AllMaxGivesHundred ==
    /\ call.op = "score" /\ analysis.status = "ok"
    /\ \A key \in AllCategories : call.scores[key] = max_points[key] * Milli
    /\ analysis.weighted = 100 * Micro
    /\ analysis.final_score = 100 * Micro

\* C8: for a valid raw_analysis and any parsed_data, enhance_analysis returns
\* raw_analysis['final_score'] (to one decimal) and raw_analysis['grade'],
\* whatever the breakdown and the display boosts are.
ScoreCarriedOver ==
    (call.op = "enhance_analysis" /\ enhanced.status = "ok") =>
        /\ enhanced.final_score = Round1(call.raw.d.final_score)
        /\ enhanced.grade = call.raw.d.grade

\* the online_presence display value was boosted and the score carried over
BoostedAndCarriedOver ==
    /\ call.op = "enhance_analysis" /\ enhanced.status = "ok"
    /\ call.parsed_data.email /\ call.parsed_data.phone
    /\ enhanced.breakdown.online_presence
         > normalize_scores(call.raw.d.breakdown).online_presence
    /\ enhanced.final_score = call.raw.d.final_score
    /\ enhanced.grade = call.raw.d.grade

\* raw_analysis is not a dict, is empty, or lacks final_score, grade, breakdown
\* or feedback
Malformed(raw_analysis) ==
    \/ raw_analysis.kind # "dict"
    \/ DOMAIN raw_analysis.d = {}
    \/ ~({"final_score", "grade", "breakdown", "feedback"} \subseteq DOMAIN raw_analysis.d)

\* C9: enhance_analysis rejects malformed input with its validation error
\* (the ValueError of its input validation) and produces no result.
MalformedInputRejected ==
    (call.op = "enhance_analysis" /\ Malformed(call.raw)) => enhanced.status = "ValueError"

\* a dict without 'grade' passes the validation and fails with KeyError
MissingGradeKeyError ==
    /\ call.op = "enhance_analysis"
    /\ call.raw.kind = "dict"
    /\ DOMAIN call.raw.d = RawKeys \ {"grade"}
    /\ enhanced.status = "KeyError"

\* 0.5 x rule_score + 0.5 x ml_score, in micro-points
Blend(result) == (result.rule_score + result.ml_score * Milli) \div 2

\* C10: the fused final score is max(0, 0.5 x rule_score + 0.5 x ml_score - p)
\* with 0 <= p <= 10, and p = 0 when file_layout is at its 20 point maximum:
\* the fused score is then the 50/50 blend.
FusedScoreIsBlend ==
    (call.op = "ml_analyze" /\ ml_result.status = "ok" /\ ml_result.has_analysis) =>
        /\ ml_result.analysis.final_score <= Round1(Blend(ml_result))
        /\ ml_result.analysis.final_score >= Round1(Max(0, Blend(ml_result) - 10 * Micro))
        /\ ml_result.raw.breakdown.file_layout = 20 * Milli =>
                ml_result.analysis.final_score = Round1(Blend(ml_result))

\* file_layout at 20 points, and the fused score is the blend less 0.8
PenaltyAtFullLayout ==
    /\ call.op = "ml_analyze" /\ ml_result.status = "ok" /\ ml_result.has_analysis
    /\ ml_result.raw.breakdown.file_layout = 20 * Milli
    /\ Blend(ml_result) > Micro
    /\ ml_result.analysis.final_score = Round1(Blend(ml_result) - 800 * Milli)

\* the elements of a sequence
Elems(seq) == {seq[i] : i \in 1..Len(seq)}

\* the call of ml_score was made with both texts non-empty
MLScoreCalled == call.op = "ml_score" /\ ~call.resume_empty /\ ~call.jd_empty

EmbeddingPath == MLScoreCalled /\ call.ml.embedder /\ call.ml.encode_ok

\* C11: ml_score returns a score within [0, 100] on every path; on the
\* embedding path it is the similarity remapped linearly from [0.25, 0.85] to
\* [40, 95] (to two decimals) and clipped to [40, 95]; with an empty text it
\* is 0.0 with "Invalid input" and no model is invoked.
MLScoreInRange ==
    call.op = "ml_score" =>
        /\ 0 <= ml_result.score /\ ml_result.score <= 100 * Milli
        /\ (call.resume_empty \/ call.jd_empty) =>
                /\ ml_result.score = 0
                /\ ml_result.explanation = "Invalid input"
                /\ ModelsConsulted(call.resume_empty, call.jd_empty, call.ml) = <<>>
        /\ EmbeddingPath =>
                /\ 40 * Milli <= ml_result.score /\ ml_result.score <= 95 * Milli
                /\ call.ml.sim <= 250 => ml_result.score = 40 * Milli
                /\ call.ml.sim >= 850 => ml_result.score = 95 * Milli
                /\ (250 <= call.ml.sim /\ call.ml.sim <= 850) =>
                        \* 6 x (40 + (sim - 0.25) / 0.6 x 55), within the rounding
                        LET exact6 == 240 * Milli + (call.ml.sim - 250) * 550
                        IN  /\ 6 * ml_result.score - exact6 <= 30
                            /\ exact6 - 6 * ml_result.score <= 30

\* a similarity of 1.0 is clipped to 95
SimilarityClippedAtTop ==
    /\ EmbeddingPath
    /\ call.ml.sim = 1000
    /\ ml_result.score = 95 * Milli

EmbeddingFailed == MLScoreCalled /\ ~(call.ml.embedder /\ call.ml.encode_ok)
CrossEncoderFailed == EmbeddingFailed /\ ~(call.ml.cross_encoder /\ call.ml.predict_ok)

\* C12: the cross-encoder is consulted only if the embedding model is
\* unavailable or its encoding raises, TF-IDF only if the cross-encoder is
\* unavailable or its prediction raises, the neutral 0.5 only if TF-IDF also
\* raises; for non-empty inputs the call ends with the score of the first
\* step that succeeds.
FallbackOrder ==
    MLScoreCalled =>
        LET consulted == Elems(ModelsConsulted(call.resume_empty, call.jd_empty, call.ml))
        IN  /\ ml_result.status = "ok" /\ "score" \in DOMAIN ml_result
            /\ "cross_encoder" \in consulted => EmbeddingFailed
            /\ "tfidf" \in consulted => CrossEncoderFailed
            /\ "neutral" \in consulted => (CrossEncoderFailed /\ ~call.ml.tfidf_ok)
            /\ (EmbeddingFailed /\ ~CrossEncoderFailed) =>
                    ml_result.score = Min(1000, Max(0, (call.ml.sigmoid - 400) * 2)) * 100
            /\ (CrossEncoderFailed /\ call.ml.tfidf_ok) =>
                    ml_result.score = call.ml.tfidf_sim * 100
            /\ (CrossEncoderFailed /\ ~call.ml.tfidf_ok) => ml_result.score = 50 * Milli

\* both models are loaded and both raise, the TF-IDF vectorizer raises: 50.0
EveryStepFails ==
    /\ MLScoreCalled
    /\ ModelsConsulted(call.resume_empty, call.jd_empty, call.ml)
         = <<"embedder", "cross_encoder", "tfidf", "neutral">>
    /\ ml_result.score = 50 * Milli

\* C13: when the ranker is loaded, the score ml_score returns is the ranker's
\* output recalibrated to the display range, not the plain embedding score.
RankerReplacesEmbedding ==
    (MLScoreCalled /\ call.ml.rank_model /\ call.ml.rank_ok) =>
        ml_result.score = _fusion_score(_cross_encoder_score(call.ml), call.ml)

\* the ranker is loaded and predicts 0.65 (50 after recalibration), and
\* ml_score returns the embedding score 95
RankerIgnored ==
    /\ EmbeddingPath
    /\ call.ml.rank_model /\ call.ml.rank_ok /\ call.ml.rank_out = 650
    /\ call.ml.sim = 1000
    /\ ml_result.score = 95 * Milli

SemanticFitCalled == call.op = "check_semantic_fit"

\* C14: on degenerate input check_semantic_fit never raises and never invokes
\* the embedding model: an empty resume_text gives 0.0 whatever jd_text is;
\* otherwise an empty jd_text gives 20.0 with no feedback.
DegenerateSemanticFit ==
    SemanticFitCalled =>
        /\ call.resume_empty =>
                /\ analysis.status = "ok" /\ analysis.score = 0
                /\ ~EncodeCalled(call.resume_empty, call.jd_empty, call.sem)
        /\ (~call.resume_empty /\ call.jd_empty) =>
                /\ analysis.status = "ok" /\ analysis.score = 20 * Milli
                /\ analysis.feedback = <<>>
                /\ ~EncodeCalled(call.resume_empty, call.jd_empty, call.sem)

\* both texts empty: 0.0, the resume is tested first
BothTextsEmpty ==
    /\ SemanticFitCalled
    /\ call.resume_empty /\ call.jd_empty
    /\ analysis.score = 0 /\ analysis.feedback = <<"Invalid resume text">>

\* critical_match_rate < 0.25 for the texts of the call
CriticalMismatch ==
    /\ SemanticFitCalled /\ ~call.resume_empty /\ ~call.jd_empty
    /\ call.sem.tfidf_ok /\ call.sem.terms > 0
    /\ 4 * call.sem.found < call.sem.terms

\* C15: with non-empty texts, with or without the KB, a critical_match_rate
\* below 0.25 makes check_semantic_fit return critical_match_rate x 10 with a
\* critical-mismatch message, and encode is not invoked in that call.
Stage1ShortCircuit ==
    CriticalMismatch =>
        /\ analysis.score = (call.sem.found * 10 * Milli) \div call.sem.terms
        /\ analysis.score <= 2500
        /\ analysis.feedback = <<"Critical mismatch - missing terms">>
        /\ ~EncodeCalled(call.resume_empty, call.jd_empty, call.sem)

\* no KB, none of the JD's ten terms in the resume: the embeddings are
\* computed and the score is similarity x 20
NoKBNoShortCircuit ==
    /\ CriticalMismatch
    /\ ~call.sem.kb /\ call.sem.found = 0 /\ call.sem.encode_ok /\ call.sem.sim = 1000
    /\ EncodeCalled(call.resume_empty, call.jd_empty, call.sem)
    /\ analysis.score = 20 * Milli

\* encode is called for the texts and raises (or there is no model)
EncodeFails(resume_empty, jd_empty, sem) ==
    EncodeCalled(resume_empty, jd_empty, sem) /\ ~sem.encode_ok

\* C16: when the encoding fails check_semantic_fit does not raise and returns
\* a score within [0, 20] that depends on the texts: some other texts, for
\* which the encoding fails too, get another score.
EncodingFailureFallsBack ==
    (SemanticFitCalled /\ EncodeFails(call.resume_empty, call.jd_empty, call.sem)) =>
        /\ analysis.status = "ok"
        /\ 0 <= analysis.score /\ analysis.score <= 20 * Milli
        /\ \E other \in Sems :
                /\ EncodeFails(FALSE, FALSE, other)
                /\ check_semantic_fit(FALSE, FALSE, other).score # analysis.score

\* the encoding fails and the result is the constant 5.0
EncodingFailureConstant ==
    /\ SemanticFitCalled /\ EncodeFails(call.resume_empty, call.jd_empty, call.sem)
    /\ call.sem.found = 10
    /\ analysis.score = 5 * Milli
    /\ analysis.feedback = <<"Semantic analysis failed">>

\* check_keyword_alignment was called with both texts non-empty and the
\* vectorizer worked
KeywordsCompared ==
    /\ call.op = "check_keyword_alignment"
    /\ ~call.resume_empty /\ ~call.jd_empty /\ call.kw.ok

\* the lists matched_technical and missing_technical of skill_details
MatchedTechnical == Min(call.kw.tech_matched, 15)
MissingTechnical == Min(call.kw.tech_missing, 10)

\* the factor f of the ladder, in tenths
LadderFactor ==
    LET total_tech == MatchedTechnical + MissingTechnical
        \* tech_match_rate < k / 10
        below(k) == 10 * MatchedTechnical < k * total_tech
    IN  IF total_tech >= 3 /\ below(4) THEN 2
        ELSE IF total_tech >= 3 /\ below(6) THEN 4
        ELSE IF total_tech >= 3 /\ below(8) THEN 7
        ELSE 10

\* C17: check_keyword_alignment returns match_rate x 15 x f, with f = 0.2,
\* 0.4 or 0.7 when total_tech >= 3 and tech_match_rate is below 0.4, 0.6 or
\* 0.8, and f = 1 otherwise, in particular whenever fewer than 3 technical
\* terms exist.
SeverityLadder ==
    (KeywordsCompared /\ call.kw.terms > 0) =>
        analysis.score * 10 * call.kw.terms = call.kw.matched * 15 * Milli * LadderFactor

\* one technical term matched and one missing (2 terms, rate 0.5): the score
\* is match_rate x 15 x 0.7
PenaltyBelowThreeTerms ==
    /\ KeywordsCompared
    /\ call.kw.terms = 20 /\ call.kw.matched = 10
    /\ call.kw.tech_matched = 1 /\ call.kw.tech_missing = 1
    /\ analysis.score = 5250
    /\ analysis.feedback = <<"Missing technical skills">>

MatchSkillsCalled == call.op = "match_skills" /\ analysis.status = "ok"

\* the strings of a list written as their labels
Plain(skills) == [i \in 1..Len(skills) |-> Raw(skills[i].label, "plain")]

\* C18: match_skills is insensitive to letter case and to surrounding
\* whitespace: writing every skill of both lists in lower case and without
\* surrounding blanks changes neither which required skills are matched nor
\* the match percentage.
CaseAndWhitespaceInsensitive ==
    MatchSkillsCalled =>
        LET plain == match_skills(Plain(call.resume_skills), Plain(call.jd_skills), call.kb)
        IN  /\ \A i \in 1..Len(call.jd_skills) :
                    (call.jd_skills[i] \in analysis.matched)
                        <=> (Plain(call.jd_skills)[i] \in plain.matched)
            /\ analysis.match_percentage = plain.match_percentage

\* "python" and "Python " are both required and the resume has "Python":
\* 100 percent, and 50 percent once both are written "python"
CaseChangesPercentage ==
    /\ MatchSkillsCalled
    /\ call.jd_skills = <<Raw("python", "plain"), Raw("python", "padded")>>
    /\ call.resume_skills = <<Raw("python", "cased")>>
    /\ analysis.match_percentage = 100 * Milli
    /\ match_skills(Plain(call.resume_skills), Plain(call.jd_skills), call.kb).match_percentage
            = 50 * Milli

\* the required skills (positions of jd_skills) reported as matched
MatchedRequired == {i \in 1..Len(call.jd_skills) : call.jd_skills[i] \in analysis.matched}

\* C19: each required skill is in exactly one of matched and missing,
\* match_percentage is 100 x (required skills matched) / (required skills),
\* within [0,100] and 100 exactly when nothing is missing, repeated labels
\* included; an empty required list gives empty matched, empty missing, 100.
MatchPercentageFormula ==
    MatchSkillsCalled =>
        /\ \A i \in 1..Len(call.jd_skills) :
                (call.jd_skills[i] \in analysis.matched)
                    # (call.jd_skills[i] \in Elems(analysis.missing))
        /\ call.jd_skills # <<>> =>
                analysis.match_percentage
                    = (Cardinality(MatchedRequired) * 100 * Milli) \div Len(call.jd_skills)
        /\ analysis.match_percentage \in 0..(100 * Milli)
        /\ (analysis.match_percentage = 100 * Milli) <=> (analysis.missing = <<>>)
        /\ call.jd_skills = <<>> =>
                /\ analysis.matched = {}
                /\ analysis.missing = <<>>
                /\ analysis.match_percentage = 100 * Milli

\* "python" required twice and present in the resume: nothing is missing and
\* the percentage is 50
RepeatedLabelHalved ==
    /\ MatchSkillsCalled
    /\ call.jd_skills = <<Raw("python", "plain"), Raw("python", "plain")>>
    /\ call.resume_skills = <<Raw("python", "cased")>>
    /\ analysis.missing = <<>>
    /\ analysis.match_percentage = 50 * Milli

\* the first of the five rules that matches, 0 when none does
FirstRule(jd_skill, resume_skills, kb) ==
    LET rules == <<ExactRule(jd_skill, resume_skills), SubstringRule(jd_skill, resume_skills),
                   KBRule(jd_skill, resume_skills, kb),
                   EquivalentsRule(jd_skill, resume_skills), FuzzyRule(jd_skill, resume_skills)>>
    IN  IF \E n \in 1..5 : rules[n]
        THEN CHOOSE n \in 1..5 : rules[n] /\ \A m \in 1..(n - 1) : ~rules[m]
        ELSE 0

\* a matcher without the KB step
NoKBMatch(jd_skill, resume_skills) ==
    \/ ExactRule(jd_skill, resume_skills)
    \/ SubstringRule(jd_skill, resume_skills)
    \/ EquivalentsRule(jd_skill, resume_skills)
    \/ FuzzyRule(jd_skill, resume_skills)

KBUnavailable(jd_skill, resume_skills, kb) ==
    ~kb.present \/ KBSearch(jd_skill, resume_skills, kb) = "raised"

ResumeNormalized ==
    [i \in 1..Len(call.resume_skills) |-> _normalize(call.resume_skills[i])]

\* C20: _is_match tries exact, substring, KB, equivalents, fuzzy in this
\* order and the first rule that matches decides; with the KB absent or a KB
\* search raising, the equivalents table and the fuzzy ratio are still
\* evaluated and the result is that of a matcher without the KB step.
KBFailureFallsThrough ==
    MatchSkillsCalled =>
        \A i \in 1..Len(call.jd_skills) :
            LET jd_norm == _normalize(call.jd_skills[i])
            IN  /\ MatchRule(jd_norm, ResumeNormalized, call.kb)
                        = FirstRule(jd_norm, ResumeNormalized, call.kb)
                /\ (call.jd_skills[i] \in analysis.matched)
                        <=> (FirstRule(jd_norm, ResumeNormalized, call.kb) # 0)
                /\ KBUnavailable(jd_norm, ResumeNormalized, call.kb) =>
                        ((call.jd_skills[i] \in analysis.matched)
                            <=> NoKBMatch(jd_norm, ResumeNormalized))

\* the KB search raises and the skills still match: k8s by the equivalents
\* table, tableau by the fuzzy ratio
MatchedAfterKBException ==
    /\ MatchSkillsCalled
    /\ call.kb.present
    /\ call.jd_skills = <<Raw("k8s", "plain"), Raw("tableau", "plain")>>
    /\ call.resume_skills = <<Raw("kubernetes", "plain"), Raw("tableu", "plain")>>
    /\ \A i \in 1..2 : KBSearch(_normalize(call.jd_skills[i]), ResumeNormalized, call.kb) = "raised"
    /\ MatchRule("k8s", ResumeNormalized, call.kb) = 4
    /\ MatchRule("tableau", ResumeNormalized, call.kb) = 5
    /\ analysis.matched = Elems(call.jd_skills)

\* C21: analyze is deterministic: a call with the arguments of an earlier
\* call returns the same final score and grade, whenever it is made.
AnalyzeDeterministic ==
    (call.op = "analyze" /\ "at" \in DOMAIN call /\ analysis.status = "ok") =>
        LET again == analyze(call.req, now)
        IN  /\ again.status = "ok"
            /\ again.final_score = analysis.final_score
            /\ again.grade = analysis.grade

\* the current job reaches two years between the two calls: the first call
\* took off 2 points for limited experience, the second does not
ScoreChangesWithClock ==
    /\ call.op = "analyze" /\ "at" \in DOMAIN call /\ analysis.status = "ok"
    /\ now = call.at + 1
    /\ _calculate_total_months(call.req.work_history, call.at) = 23
    /\ _calculate_total_months(call.req.work_history, now) = 24
    /\ analyze(call.req, now).final_score > analysis.final_score

NormalizeCalled == call.op = "normalize_skill_inputs" /\ analysis.status = "ok"

\* the plain strings equal to the label fields of a list of dicts (None where
\* a dict has no label)
LabelFields(dicts) ==
    [i \in 1..Len(dicts) |->
        IF dicts[i].label.none THEN None ELSE PlainStr(dicts[i].label)]

\* the stripped texts of the entries that are neither None nor empty, in order
RECURSIVE StrippedInOrder(_)
StrippedInOrder(strings) ==
    IF strings = <<>> THEN <<>>
    ELSE (IF Head(strings) = None \/ Head(strings).value.text = "" THEN <<>>
          ELSE <<Head(strings).value.text>>)
         \o StrippedInOrder(Tail(strings))

\* C22: normalize_skill_inputs gives the same output for a list of skill
\* dicts and for the list of plain strings equal to the dicts' label fields;
\* in both cases the entries are stripped, None and empty entries are
\* dropped and the order of the others is kept.
DictsAndStringsAgree ==
    NormalizeCalled =>
        /\ (\A i \in 1..Len(call.skills_raw) : call.skills_raw[i].kind = "dict") =>
                /\ analysis.normalized = normalize_skill_inputs(LabelFields(call.skills_raw))
                /\ analysis.normalized = StrippedInOrder(LabelFields(call.skills_raw))
        /\ (\A i \in 1..Len(call.skills_raw) : call.skills_raw[i].kind # "dict") =>
                analysis.normalized = StrippedInOrder(call.skills_raw)

\* [{"label": "", "name": "Python"}] gives ['Python'], [""] gives []
EmptyLabelReplacedByName ==
    /\ NormalizeCalled
    /\ call.skills_raw = <<Dict(Str("", FALSE), Str("Python", FALSE), Absent)>>
    /\ analysis.normalized = <<"Python">>
    /\ normalize_skill_inputs(LabelFields(call.skills_raw)) = <<>>

\* the last set() for the pair of the get() just made
LastStored == {h \in stored : h.text = call.text /\ h.doc_type = call.doc_type}

\* C23: get(text, doc_type) returns the data most recently stored by set for
\* that pair when the entry is not older than the TTL, and None when nothing
\* was stored for the pair (the same text under another doc_type included)
\* or the entry has expired, and then the expired file is removed.
CacheRoundTrip ==
    call.op = "get" =>
        IF LastStored = {} THEN ~analysis.hit
        ELSE \A h \in LastStored :
                IF clock - h.at > ttl_hours
                THEN /\ ~analysis.hit
                     /\ \A f \in cache : f.path # CachePath(call.text, call.doc_type)
                ELSE analysis.hit /\ analysis.data = h.data

\* a hit on an entry exactly 24 hours old, stored over another one, while
\* the same text under the other doc_type was never stored
HitAtTtlAge ==
    /\ call.op = "get" /\ analysis.hit
    /\ \E h \in LastStored : clock - h.at = ttl_hours /\ analysis.data = h.data
    /\ \A h \in stored : h.text = call.text => h.doc_type = call.doc_type
    /\ Cardinality(stored) = 2

ExperienceChecked == call.op = "experience" /\ analysis.status = "ok"

\* the sort key of job i: the month of its start date, 'present' or '' being
\* now, which comes after a parsed date of the same month
StartsBefore(h, i, j) ==
    LET a == _parse_date(h[i].start_date, now)
        b == _parse_date(h[j].start_date, now)
    IN  \/ a.ym < b.ym
        \/ a.ym = b.ym /\ ~a.is_now /\ b.is_now
        \/ a.ym = b.ym /\ a.is_now = b.is_now /\ i < j

\* the jobs that follow another job in the order of their start dates, more
\* than 6 months after that job's end
GapsAfter(h) ==
    {j \in 1..Len(h) :
        \E i \in 1..Len(h) :
            /\ StartsBefore(h, i, j)
            /\ \A k \in 1..Len(h) : ~(StartsBefore(h, i, k) /\ StartsBefore(h, k, j))
            /\ ~_parse_date(h[i].end_date, now).none
            /\ _parse_date(h[j].start_date, now).ym - _parse_date(h[i].end_date, now).ym > 6}

Unparseable(d) == _parse_date(d, now).none

\* the months of the jobs whose two dates can be parsed
RECURSIVE ParsedMonths(_)
ParsedMonths(h) ==
    IF h = <<>> THEN 0
    ELSE (IF Unparseable(Head(h).start_date) \/ Unparseable(Head(h).end_date) THEN 0
          ELSE Max(0, _parse_date(Head(h).end_date, now).ym
                        - _parse_date(Head(h).start_date, now).ym))
         + ParsedMonths(Tail(h))

\* C25: no experience check raises when a start or end date cannot be
\* parsed, wherever the date is: the job counts 0 months, makes no gap, and
\* every check returns a score.
UnparseableDatesNeverRaise ==
    ExperienceChecked =>
        /\ ~analysis.date_consistency.raised
        /\ ~analysis.employment_gaps.raised
        /\ ~analysis.career_progression.raised
        /\ analysis.total_months = ParsedMonths(call.work_history)
        /\ analysis.employment_gaps.score
                = 10 * Milli - Min(10 * Milli, 3 * Milli * Cardinality(
                    {j \in GapsAfter(call.work_history) :
                        ~Unparseable(call.work_history[j].start_date)}))

\* three jobs, the last with a start date that cannot be parsed: the sort of
\* check_employment_gaps raises while the other two checks return
SortRaisesOnUnparseableStart ==
    /\ ExperienceChecked
    /\ Len(call.work_history) = 3
    /\ \A i \in 1..3 : Unparseable(call.work_history[i].start_date) <=> i = 3
    /\ analysis.employment_gaps.raised
    /\ ~analysis.date_consistency.raised
    /\ ~analysis.career_progression.raised
    /\ analysis.total_months = ParsedMonths(call.work_history)

\* some company appears with more than one distinct title
DistinctTitlesAtOneCompany(h) ==
    \E i, j \in 1..Len(h) :
        h[i].company # "" /\ h[i].company = h[j].company /\ h[i].title # h[j].title

\* C26: check_career_progression on a non-empty history returns
\* clamp(5 - 2a + 2b - c, 0, 10): a = 1 iff total years < 2, b = 1 iff some
\* company appears with more than one distinct title, c = 1 iff there are
\* more than 2 jobs and no title has a seniority keyword; an empty history
\* returns 0.
ProgressionScoreFormula ==
    (ExperienceChecked /\ ~analysis.career_progression.raised) =>
        LET h == call.work_history
            a == IF analysis.total_months < 2 * 12 THEN 1 ELSE 0
            b == IF DistinctTitlesAtOneCompany(h) THEN 1 ELSE 0
            c == IF Len(h) > 2 /\ \A i \in 1..Len(h) :
                        TitleKeywords[h[i].title] \cap seniority_keywords = {}
                 THEN 1 ELSE 0
        IN  analysis.career_progression.score
                = IF h = <<>> THEN 0
                  ELSE Min(10 * Milli, Max(0, (5 - 2 * a + 2 * b - c) * Milli))

\* Developer at Acme twice: 7 points and "1 promotion(s) detected"
SameTitleCountedAsPromotion ==
    /\ ExperienceChecked
    /\ Len(call.work_history) = 2
    /\ \A i \in 1..2 : call.work_history[i].company = "Acme"
                        /\ call.work_history[i].title = "Developer"
    /\ ~DistinctTitlesAtOneCompany(call.work_history)
    /\ analysis.total_months >= 2 * 12
    /\ analysis.career_progression.score = 7 * Milli
    /\ analysis.career_progression.feedback
            = <<"Career progression: 1 promotion(s) detected">>

\* the formats of the concrete dates of a history
FormatsUsed(h) ==
    {d.kind : d \in {h[i].start_date : i \in 1..Len(h)} \cup {h[i].end_date : i \in 1..Len(h)}}
        \ {"present", "empty"}

\* all concrete dates in one supported format, every start date concrete
OneFormat(h) ==
    /\ Cardinality(FormatsUsed(h)) <= 1
    /\ FormatsUsed(h) \subseteq {"mm/yyyy", "mon yyyy", "month yyyy", "yyyy"}
    /\ \A i \in 1..Len(h) : h[i].start_date.kind \notin {"present", "empty"}

Reorderings(h) ==
    {[i \in 1..Len(h) |-> h[p[i]]] :
        p \in {q \in [1..Len(h) -> 1..Len(h)] : \A i, j \in 1..Len(h) : q[i] = q[j] => i = j}}

\* C29: check_date_consistency returns 5 without feedback for every history
\* whose concrete dates use one supported format and whose open end dates are
\* 'present' or empty, in whatever order the jobs are listed.
OneFormatFullScore ==
    (ExperienceChecked /\ OneFormat(call.work_history)) =>
        /\ analysis.date_consistency = Ret(5 * Milli, <<>>)
        /\ \A h \in Reorderings(call.work_history) :
                check_date_consistency(h) = analysis.date_consistency

\* MM/YYYY throughout and 'present' as the end of the current job: 2 points
\* and the inconsistency feedback
PresentCountedAsOtherFormat ==
    /\ ExperienceChecked
    /\ Len(call.work_history) = 2
    /\ FormatsUsed(call.work_history) = {"mm/yyyy"}
    /\ OneFormat(call.work_history)
    /\ call.work_history[2].end_date.kind = "present"
    /\ analysis.date_consistency
            = Ret(2 * Milli, <<"Inconsistent date formatting - use same format throughout">>)

\* C27: formatting penalties are fixed per issue and applied at most once per
\* document: file_layout = max(0, 20 - 5 [tables] - 5 [images]) whatever the
\* number of pages, and font_consistency = max(0, 10 - 3 [more than 3 fonts]
\* - 2 [non-standard font] - 2 [body size outside 10-12pt]).
PenaltiesOncePerDocument ==
    (call.op = "analyze" /\ analysis.status = "ok" /\ call.req.file.ext \in {"pdf", "docx"}) =>
        LET file == call.req.file
            tables == \E i \in 1..Len(file.pages) : file.pages[i].tables
            images == \E i \in 1..Len(file.pages) : file.pages[i].images
        IN  /\ analysis.breakdown.file_layout
                    = Max(0, 20 - (IF tables THEN 5 ELSE 0) - (IF images THEN 5 ELSE 0)) * Milli
            /\ analysis.breakdown.font_consistency
                    = Max(0, 10 - (IF file.many_fonts THEN 3 ELSE 0)
                                - (IF file.non_standard THEN 2 ELSE 0)
                                - (IF file.size_out THEN 2 ELSE 0)) * Milli

\* a PDF of two pages, tables on both and an image on the first: 5 points
TablesOnTwoPages ==
    /\ call.op = "analyze" /\ analysis.status = "ok"
    /\ call.req.file.ext = "pdf"
    /\ Len(call.req.file.pages) = 2
    /\ \A i \in 1..2 : call.req.file.pages[i].tables
    /\ analysis.breakdown.file_layout = 5 * Milli

\* C28: every breakdown entry of the result of enhance_analysis is
\* raw_score / max_points x 100 of the raw entry, rounded to one decimal,
\* for every category and every parsed_data.
DisplayIsRawOverMax ==
    (call.op = "enhance_analysis" /\ enhanced.status = "ok") =>
        /\ DOMAIN enhanced.breakdown = DOMAIN call.raw.d.breakdown
        /\ \A key \in DOMAIN enhanced.breakdown :
                enhanced.breakdown[key]
                    = Round1Milli((call.raw.d.breakdown[key] * 100) \div max_points[key])

\* e-mail and phone present: online_presence 2.0 of 5 is displayed as 45.0
OnlinePresenceDisplayedHigher ==
    /\ call.op = "enhance_analysis" /\ enhanced.status = "ok"
    /\ call.parsed_data.email /\ call.parsed_data.phone
    /\ call.raw.d.breakdown.online_presence = 2 * Milli
    /\ enhanced.breakdown.online_presence = 45 * Milli
    /\ \A key \in DOMAIN enhanced.breakdown \ {"online_presence"} :
            enhanced.breakdown[key]
                = Round1Milli((call.raw.d.breakdown[key] * 100) \div max_points[key])

\* C30: every row of match_results references a resume_id that exists in
\* resumes, so each saved match is returned by get_batch_results and by
\* get_batch_results_by_session, also when a resume with the same e-mail is
\* uploaded again in the same session.
MatchesReferenceResumes ==
    \A i \in 1..Len(db.match_results) :
        /\ \E r \in db.resumes : r.id = db.match_results[i].resume_id
        /\ i \in get_batch_results(db.match_results[i].jd_id)
        /\ i \in get_batch_results_by_session(db.match_results[i].session_id)

\* the same e-mail uploaded twice in one session: one resume row, two match
\* rows, the second one missing from the batch results
SecondUploadMatchLost ==
    /\ call.op = "upload_resume" /\ analysis.status = "ok"
    /\ call.email # ""
    /\ Cardinality(db.resumes) = 1
    /\ Len(db.match_results) = 2
    /\ \A r \in db.resumes : r.email = call.email /\ r.id # analysis.resume_id
    /\ db.match_results[2].resume_id = analysis.resume_id
    /\ get_batch_results(call.jd_id) = {1}
    /\ get_batch_results_by_session(call.session_id) = {1}

====
